---- MODULE Spec2Model ----
(***************************************************************************)
(* Press-and-hold capture controller of gymvoicelog (RecordButton).        *)
(*                                                                         *)
(* Spec  models the latest RecordButton: hold timer, max-duration timer    *)
(*       and liveness polling (the HOLD_TO_START_MS, MAX_RECORDING_MS and  *)
(*       POLLING_INTERVAL_MS tunables).                                    *)
(* Spec8 models the press-id variant of RecordButton: every press-down and *)
(*       press-up increments currentPressIdRef, handleStartRecording takes *)
(*       the id it expects and re-checks it after each acquisition step,   *)
(*       and recordings shorter than 400 ms are cancelled.                 *)
(*                                                                         *)
(* Time is abstracted: a timer is "null" (no id stored), "armed" (pending, *)
(* delay not yet elapsed), "due" (delay elapsed, callback not yet run) or  *)
(* "fired" (callback ran, the stale id is still stored in the ref).        *)
(* Every await is a suspension point; the continuation is its own action.  *)
(* A device handle counts as finalized once a stopAndUnloadAsync() call on *)
(* it has settled, resolved or rejected: the code drops the reference on   *)
(* either outcome wherever it ignores the rejection.                       *)
(***************************************************************************)
EXTENDS Integers, Sequences, FiniteSets, TLC

\* ---- bounds ----
MaxStarts == 3         \* capture sessions started in one run
MaxStops == 2          \* stop calls in flight at once

VARIABLES
  \* refs and React state of the component
  recordingRef,          \* 0 = null, else the device handle
  isRecordingRef,
  isTransitioningRef,
  isPressingRef,
  pendingStartRef,
  holdTimerRef,
  maxTimerRef,
  pollingIntervalRef,
  isRecording,
  isTranscribing,
  renderedTranscribing,  \* isTranscribing as seen by the closures of the last render
  \* asynchronous calls in flight
  starts,
  stops,
  unmountFinalize,       \* handles whose unmount-time stopAndUnloadAsync is pending
  \* environment
  pressed,               \* finger physically down
  pressAge,              \* "none" | "short" (< H since press-down) | "long"
  timerOfPress,          \* the armed hold timer was armed by the press now held
  idleAtPress,           \* the press now held arrived with the controller Idle and rendered
  refusedByStatus,       \* the press now held was ignored because of isTranscribing alone
  unmounted,
  \* history
  created,               \* handles returned by createAsync
  finalized,             \* handles on which a stopAndUnloadAsync call has settled
  uploads,               \* per handle: fetch calls made for its artifact
  callbacks,             \* per handle: onRecordingComplete calls
  gesture,               \* "none" | "taps" (only short, delivered presses so far) | "other"
  retriggered,           \* a release event arrived while a stop was in flight
  disposedActive,        \* handle of the session that was active at unmount, 0 if none
  \* refs of the press-id variant
  isPressActiveRef,
  currentPressIdRef,
  longPressTimeoutRef,   \* 0 = null, else the press id whose timer it holds
  timeouts,              \* pending setTimeout callbacks: [id, st], st "armed" | "due"
  recordingStartTimeRef, \* "null" | "recent" (< 400 ms ago) | "old"
  cancelled,             \* history: handles whose stop fell into the cancel window
  \* the POST /combine handler of the stt-server, one request at a time
  texts,                 \* req.body.texts: [kind: "missing" | "notArray" | "array", items]
  combinePc,             \* "idle" | "completion" (awaiting the model) | "done"
  combineStatus,         \* HTTP status of the response, 0 = none sent
  combinedText,          \* "none" | "text": combinedText of the response body
  llmCalls,              \* openai.chat.completions.create calls made for this request
  \* one call of combineCards(texts) of the app
  cardsTexts,            \* its argument: [kind: "missing" | "array", items]
  cardsPc,               \* "idle" | "fetch" | "errorJson" | "json" | "returned" | "thrown"
  cardsRequests,         \* fetch calls made by this call
  cardsResponse,         \* "none" | "ok" | "notOk": response.ok of the response received
  cardsBody,             \* "none", else the parsed body's combinedText: "text" | "empty" | "missing"
  cardsResult,           \* "none" | "text": the value the call returned
  \* the POST /transcribe handler of the stt-server, one request at a time
  trPc,                  \* "idle" | "stt" | "llm" | "done"
  trReq,                 \* requests received so far
  trFile,                \* req.file is set for the request being handled
  trDir,                 \* files in uploads/: [req, name: "tmp" | "fixed"]
  trUnlinks,             \* fs.unlink calls not yet completed
  trUnlinkError,         \* an fs.unlink call of this request failed (the callback ignores it)
  trStatus,              \* HTTP status of the response, 0 = none sent
  trStt,                 \* "none" | "ok" | "rejected": outcome of the transcription call
  trTranscript,          \* "none" (no such field) | "text" | "empty": transcript of the response
  trLlm,                 \* outcome of the summarization call, see LlmOutcomes
  trSummary,             \* "none" (no such field) | "null" | "value": summary of the response
  trLifts,               \* "none" | "null" | "value": extractedLifts of the response
  trSummaryFailed,       \* the handler logged "LLM summary FAILED" for this request
  \* the workout store of the app (useWorkoutStore)
  stPc,                  \* "unmounted" | "reading" (getItem pending) | "read" | "loaded"
  stStorage,             \* the JSON stored under STORAGE_KEY, {} if there is none
  workoutsByDate,        \* the in-memory map: [keys, items], items are <<day, entry id>>
  stLoaded,              \* the map loadWorkouts resolved with
  stSaves,               \* AsyncStorage.setItem calls pending, each with its JSON
  stAdds,                \* addEntry calls made
  stInitial,             \* history: what was stored when the app started
  stEarly                \* history: items added before the load was merged

vars == <<recordingRef, isRecordingRef, isTransitioningRef, isPressingRef,
          pendingStartRef, holdTimerRef, maxTimerRef, pollingIntervalRef,
          isRecording, isTranscribing, renderedTranscribing, starts, stops,
          unmountFinalize, pressed, pressAge, timerOfPress, idleAtPress,
          refusedByStatus, unmounted, created,
          finalized, uploads, callbacks, gesture, retriggered, disposedActive,
          isPressActiveRef, currentPressIdRef, longPressTimeoutRef, timeouts,
          recordingStartTimeRef, cancelled,
          texts, combinePc, combineStatus, combinedText, llmCalls,
          cardsTexts, cardsPc, cardsRequests, cardsResponse, cardsBody, cardsResult,
          trPc, trReq, trFile, trDir, trUnlinks, trUnlinkError, trStatus, trStt,
          trTranscript, trLlm, trSummary, trLifts, trSummaryFailed,
          stPc, stStorage, workoutsByDate, stLoaded, stSaves, stAdds, stInitial,
          stEarly>>

storeVars == <<stPc, stStorage, workoutsByDate, stLoaded, stSaves, stAdds, stInitial,
               stEarly>>

transcribeVars == <<trPc, trReq, trFile, trDir, trUnlinks, trUnlinkError, trStatus,
                    trStt, trTranscript, trLlm, trSummary, trLifts, trSummaryFailed>>

cardsVars == <<cardsTexts, cardsPc, cardsRequests, cardsResponse, cardsBody, cardsResult>>

\* what the models of the other modules of the app work on
auxVars == <<cardsVars, transcribeVars, storeVars>>

srvVars == <<texts, combinePc, combineStatus, combinedText, llmCalls>>

\* what only the press-id variant uses, and what only the latest variant uses
p8Vars == <<isPressActiveRef, currentPressIdRef, longPressTimeoutRef, timeouts,
            recordingStartTimeRef, cancelled>>

p6Vars == <<isPressingRef, pendingStartRef, holdTimerRef, maxTimerRef,
            pollingIntervalRef, isTranscribing, renderedTranscribing, timerOfPress,
            idleAtPress, refusedByStatus,
            gesture, retriggered>>

ctlVars == <<recordingRef, isRecordingRef, isTransitioningRef, pendingStartRef,
             holdTimerRef, maxTimerRef, pollingIntervalRef, isRecording, stops>>

envVars == <<pressed, pressAge, timerOfPress, idleAtPress, refusedByStatus, unmounted>>

histVars == <<created, finalized, uploads, callbacks, gesture, retriggered,
              disposedActive>>

Handles == 1..MaxStarts

TimerStates == {"null", "armed", "due", "fired"}

\* ---- the controller state the synchronous part of stop() works on ----
Ctl ==
  [recordingRef |-> recordingRef, isRecordingRef |-> isRecordingRef,
   isTransitioningRef |-> isTransitioningRef, pendingStartRef |-> pendingStartRef,
   holdTimerRef |-> holdTimerRef, maxTimerRef |-> maxTimerRef,
   pollingIntervalRef |-> pollingIntervalRef, isRecording |-> isRecording,
   stops |-> stops]

SetCtl(c) ==
  /\ recordingRef' = c.recordingRef
  /\ isRecordingRef' = c.isRecordingRef
  /\ isTransitioningRef' = c.isTransitioningRef
  /\ pendingStartRef' = c.pendingStartRef
  /\ holdTimerRef' = c.holdTimerRef
  /\ maxTimerRef' = c.maxTimerRef
  /\ pollingIntervalRef' = c.pollingIntervalRef
  /\ isRecording' = c.isRecording
  /\ stops' = c.stops

clearHoldTimer(c) == [c EXCEPT !.holdTimerRef = "null", !.pendingStartRef = FALSE]

clearMaxTimer(c) == [c EXCEPT !.maxTimerRef = "null"]

stopPolling(c) == [c EXCEPT !.pollingIntervalRef = "null"]

startPolling(c) == [stopPolling(c) EXCEPT !.pollingIntervalRef = "on"]

\* One call of handleStopRecording past its guard: rec is its local `rec`, by
\* the caller ("release", "max", "poll"), result the outcome of its upload.
NewStop(rec, by) == [rec |-> rec, by |-> by, pc |-> "finalize", result |-> "none"]

\* handleStopRecording up to its first await: the guard ...
StopGuard_None(c) == TRUE

StopGuard(c) == c.isRecordingRef

\* ... the synchronous flip of the state ...
StopFlip_KeepsRecording(c) == clearHoldTimer(clearMaxTimer(c))

StopFlip_KeepsRecordingState(c) ==
  clearHoldTimer(clearMaxTimer([c EXCEPT !.isRecordingRef = FALSE]))

StopFlip(c) ==
  clearHoldTimer(clearMaxTimer([c EXCEPT !.isRecordingRef = FALSE, !.isRecording = FALSE]))

\* ... and the call of rec.stopAndUnloadAsync() (with no rec the try block is
\* empty and the finally clause releases the guard at once).
StopEnter_NoGuard(c, by) ==
  IF c.recordingRef = 0
    THEN [c EXCEPT !.isTransitioningRef = FALSE]
    ELSE [c EXCEPT !.stops = Append(@, NewStop(c.recordingRef, by))]

StopEnter(c, by) ==
  IF c.recordingRef = 0
    THEN [c EXCEPT !.isTransitioningRef = FALSE]
    ELSE [c EXCEPT !.isTransitioningRef = TRUE,
                   !.stops = Append(@, NewStop(c.recordingRef, by))]

handleStopRecordingSync(c, by) ==
  LET p == stopPolling(c)
  IN IF ~StopGuard(p) THEN p ELSE StopEnter(StopFlip(p), by)

Init ==
  /\ recordingRef = 0
  /\ isRecordingRef = FALSE
  /\ isTransitioningRef = FALSE
  /\ isPressingRef = FALSE
  /\ pendingStartRef = FALSE
  /\ holdTimerRef = "null"
  /\ maxTimerRef = "null"
  /\ pollingIntervalRef = "null"
  /\ isRecording = FALSE
  /\ isTranscribing = FALSE
  /\ renderedTranscribing = FALSE
  /\ starts = <<>>
  /\ stops = <<>>
  /\ unmountFinalize = {}
  /\ pressed = FALSE
  /\ pressAge = "none"
  /\ timerOfPress = FALSE
  /\ idleAtPress = FALSE
  /\ refusedByStatus = FALSE
  /\ unmounted = FALSE
  /\ created = {}
  /\ finalized = {}
  /\ uploads = [h \in Handles |-> 0]
  /\ callbacks = [h \in Handles |-> 0]
  /\ gesture = "none"
  /\ retriggered = FALSE
  /\ disposedActive = 0
  /\ isPressActiveRef = FALSE
  /\ currentPressIdRef = 0
  /\ longPressTimeoutRef = 0
  /\ timeouts = {}
  /\ recordingStartTimeRef = "null"
  /\ cancelled = {}
  /\ texts = [kind |-> "missing", items |-> <<>>]
  /\ combinePc = "idle"
  /\ combineStatus = 0
  /\ combinedText = "none"
  /\ llmCalls = 0
  /\ cardsTexts = [kind |-> "missing", items |-> <<>>]
  /\ cardsPc = "idle"
  /\ cardsRequests = 0
  /\ cardsResponse = "none"
  /\ cardsBody = "none"
  /\ cardsResult = "none"
  /\ trPc = "idle"
  /\ trReq = 0
  /\ trFile = FALSE
  /\ trDir = {}
  /\ trUnlinks = {}
  /\ trUnlinkError = FALSE
  /\ trStatus = 0
  /\ trStt = "none"
  /\ trTranscript = "none"
  /\ trLlm = [kind |-> "none", summary |-> FALSE, structured |-> "absent"]
  /\ trSummary = "none"
  /\ trLifts = "none"
  /\ trSummaryFailed = FALSE
  /\ stPc = "unmounted"
  /\ stStorage = {}
  /\ workoutsByDate = [keys |-> {}, items |-> {}]
  /\ stLoaded = [keys |-> {}, items |-> {}]
  /\ stSaves = <<>>
  /\ stAdds = 0
  /\ stInitial = {}
  /\ stEarly = {}

\* ---- helpers over the lists of calls in flight ----
SetTask(seq, i, t) == [seq EXCEPT ![i] = t]

DropTask(seq, i) == SubSeq(seq, 1, i - 1) \o SubSeq(seq, i + 1, Len(seq))

\* ---- gesture layer ----

\* handlePressIn's guards: the isTranscribing read is the closure value of the
\* last render.
PressInGuard_NoStatus == ~isRecordingRef

PressInGuard == ~renderedTranscribing /\ ~isRecordingRef

handlePressIn ==
  /\ ~unmounted /\ ~pressed
  /\ pressed' = TRUE
  /\ idleAtPress' = (/\ ~isRecordingRef /\ ~isTransitioningRef
                     /\ ~isTranscribing /\ ~renderedTranscribing
                     /\ starts = <<>> /\ stops = <<>>)
  /\ refusedByStatus' = (renderedTranscribing /\ ~isRecordingRef)
  /\ pressAge' = "short"
  /\ IF PressInGuard
       THEN /\ isPressingRef' = TRUE
            /\ timerOfPress' = TRUE
            /\ SetCtl(
                 [clearHoldTimer(startPolling(Ctl)) EXCEPT
                    !.pendingStartRef = TRUE, !.holdTimerRef = "armed"])
       ELSE UNCHANGED <<isPressingRef, timerOfPress, ctlVars>>
  /\ UNCHANGED srvVars
  /\ UNCHANGED auxVars
  /\ UNCHANGED p8Vars
  /\ UNCHANGED <<isTranscribing, renderedTranscribing, starts, unmountFinalize,
                 unmounted, histVars>>

\* handlePressOut: a release event (pressed) or a duplicate of one (~pressed).
PressOutCtl_StopsUnguarded(c) ==
  StopEnter(StopFlip(clearHoldTimer(stopPolling(c))), "release")

PressOutCtl(c) ==
  LET q == clearHoldTimer(stopPolling(c))
  IN IF ~q.isRecordingRef THEN q ELSE handleStopRecordingSync(q, "release")

handlePressOut ==
  /\ ~unmounted
  /\ Len(stops) < MaxStops
  /\ pressed' = FALSE
  /\ pressAge' = "none"
  /\ timerOfPress' = FALSE
  /\ idleAtPress' = FALSE
  /\ refusedByStatus' = FALSE
  /\ isPressingRef' = FALSE
  /\ SetCtl(PressOutCtl(Ctl))
  /\ gesture' = IF pressed /\ pressAge = "short" /\ gesture # "other" THEN "taps" ELSE gesture
  /\ retriggered' = (retriggered \/ stops # <<>>)
  /\ UNCHANGED srvVars
  /\ UNCHANGED auxVars
  /\ UNCHANGED p8Vars
  /\ UNCHANGED <<isTranscribing, renderedTranscribing, starts, unmountFinalize,
                 unmounted, created, finalized, uploads, callbacks, disposedActive>>

\* The platform drops the release event: the finger is up, no handler runs.
ReleaseLost ==
  /\ ~unmounted /\ pressed
  /\ pressed' = FALSE
  /\ pressAge' = "none"
  /\ timerOfPress' = FALSE
  /\ idleAtPress' = FALSE
  /\ refusedByStatus' = FALSE
  /\ gesture' = "other"
  /\ UNCHANGED srvVars
  /\ UNCHANGED auxVars
  /\ UNCHANGED p8Vars
  /\ UNCHANGED <<isPressingRef, ctlVars, isTranscribing, renderedTranscribing,
                 starts, unmountFinalize, unmounted, created, finalized, uploads,
                 callbacks, retriggered, disposedActive>>

\* HOLD_TO_START_MS have passed since the press-down: the press is a hold, and
\* the hold timer (armed at or before this press-down) is due.
HoldElapsed ==
  /\ pressed /\ pressAge = "short"
  /\ pressAge' = "long"
  /\ gesture' = "other"
  /\ holdTimerRef' = IF holdTimerRef = "armed" THEN "due" ELSE holdTimerRef
  /\ UNCHANGED srvVars
  /\ UNCHANGED auxVars
  /\ UNCHANGED p8Vars
  /\ UNCHANGED <<recordingRef, isRecordingRef, isTransitioningRef, isPressingRef,
                 pendingStartRef, maxTimerRef, pollingIntervalRef, isRecording,
                 isTranscribing, renderedTranscribing, starts, stops,
                 unmountFinalize, pressed, timerOfPress, idleAtPress, refusedByStatus,
                 unmounted, created,
                 finalized, uploads, callbacks, retriggered, disposedActive>>

\* A hold timer that no press-up cleared (lost release) becomes due on its own
\* once the press that armed it is over.
StaleHoldTimerDue ==
  /\ holdTimerRef = "armed"
  /\ ~timerOfPress
  /\ holdTimerRef' = "due"
  /\ UNCHANGED srvVars
  /\ UNCHANGED auxVars
  /\ UNCHANGED p8Vars
  /\ UNCHANGED <<recordingRef, isRecordingRef, isTransitioningRef, isPressingRef,
                 pendingStartRef, maxTimerRef, pollingIntervalRef, isRecording,
                 isTranscribing, renderedTranscribing, starts, stops,
                 unmountFinalize, envVars, histVars>>

\* ---- startRecording ----

\* The hard guards. isTranscribing is the value of the render in which
\* handlePressIn armed the timer, and handlePressIn returns when it is true.
StartGuard_NoTransitionCheck ==
  /\ isPressingRef
  /\ ~isRecordingRef

StartGuard_RequiresRelease ==
  /\ ~isPressingRef
  /\ ~isRecordingRef
  /\ ~isTransitioningRef

StartGuard ==
  /\ isPressingRef
  /\ ~isRecordingRef
  /\ ~isTransitioningRef

NewStart == [pc |-> "perm"]

\* setTimeout(..., HOLD_TO_START_MS): the callback runs once the delay is over.
HoldTimerDue_NoDelay == holdTimerRef \in {"armed", "due"}

HoldTimerDue == holdTimerRef = "due"

\* The hold timer's callback.
HoldTimerFire ==
  /\ HoldTimerDue
  /\ holdTimerRef' = "fired"
  /\ pendingStartRef' = FALSE
  /\ IF isPressingRef /\ StartGuard
       THEN /\ Cardinality(created) + Len(starts) < MaxStarts
            /\ isTransitioningRef' = TRUE
            /\ starts' = Append(starts, NewStart)
       ELSE UNCHANGED <<isTransitioningRef, starts>>
  /\ UNCHANGED srvVars
  /\ UNCHANGED auxVars
  /\ UNCHANGED p8Vars
  /\ UNCHANGED <<recordingRef, isRecordingRef, isPressingRef, maxTimerRef,
                 pollingIntervalRef, isRecording, isTranscribing,
                 renderedTranscribing, stops, unmountFinalize, envVars, histVars>>

\* await Audio.requestPermissionsAsync(): a rejection is caught by the inner
\* try and start goes on to createAsync.
StartPermDone(i) ==
  /\ i \in DOMAIN starts /\ starts[i].pc = "perm"
  /\ \E ok \in BOOLEAN :
       starts' = SetTask(starts, i, [starts[i] EXCEPT !.pc = IF ok THEN "mode" ELSE "create"])
  /\ UNCHANGED srvVars
  /\ UNCHANGED auxVars
  /\ UNCHANGED p8Vars
  /\ UNCHANGED <<isPressingRef, ctlVars, isTranscribing, renderedTranscribing,
                 unmountFinalize, envVars, histVars>>

\* await Audio.setAudioModeAsync(): resolved or rejected, createAsync is next.
StartModeDone(i) ==
  /\ i \in DOMAIN starts /\ starts[i].pc = "mode"
  /\ starts' = SetTask(starts, i, [starts[i] EXCEPT !.pc = "create"])
  /\ UNCHANGED srvVars
  /\ UNCHANGED auxVars
  /\ UNCHANGED p8Vars
  /\ UNCHANGED <<isPressingRef, ctlVars, isTranscribing, renderedTranscribing,
                 unmountFinalize, envVars, histVars>>

FreshHandle == Cardinality(created) + 1

\* createAsync resolved: commit to the recording state.
StartCommit_NoMaxTimer(c, h) ==
  LET c1 == [c EXCEPT !.recordingRef = h, !.isRecordingRef = TRUE, !.isRecording = TRUE]
      c2 == IF c1.pollingIntervalRef = "null" THEN startPolling(c1) ELSE c1
  IN [c2 EXCEPT !.isTransitioningRef = FALSE]

StartCommit(c, h) ==
  LET c1 == [clearMaxTimer([c EXCEPT !.recordingRef = h, !.isRecordingRef = TRUE,
                                     !.isRecording = TRUE])
               EXCEPT !.maxTimerRef = "armed"]
      c2 == IF c1.pollingIntervalRef = "null" THEN startPolling(c1) ELSE c1
  IN [c2 EXCEPT !.isTransitioningRef = FALSE]

\* createAsync rejected: the catch block, then finally.
StartFail_KeepsPolling(c) ==
  [c EXCEPT !.isRecordingRef = FALSE, !.isRecording = FALSE,
            !.isTransitioningRef = FALSE]

StartFail_KeepsGuard(c) ==
  [stopPolling(c) EXCEPT !.isRecordingRef = FALSE, !.isRecording = FALSE]

StartFail(c) ==
  [stopPolling(c) EXCEPT !.isRecordingRef = FALSE, !.isRecording = FALSE,
                         !.isTransitioningRef = FALSE]

StartCreateDone(i) ==
  /\ i \in DOMAIN starts /\ starts[i].pc = "create"
  /\ starts' = DropTask(starts, i)
  /\ \/ /\ FreshHandle \in Handles
        /\ created' = created \cup {FreshHandle}
        /\ SetCtl(StartCommit(Ctl, FreshHandle))
     \/ /\ created' = created
        /\ SetCtl(StartFail(Ctl))
  /\ UNCHANGED srvVars
  /\ UNCHANGED auxVars
  /\ UNCHANGED p8Vars
  /\ UNCHANGED <<isPressingRef, isTranscribing, renderedTranscribing,
                 unmountFinalize, envVars, finalized, uploads, callbacks, gesture,
                 retriggered, disposedActive>>

\* ---- handleStopRecording, after its first await ----

StopAt(i, pc) == i \in DOMAIN stops /\ stops[i].pc = pc

\* rec.stopAndUnloadAsync() settled. Resolved: getURI(), recordingRef = null,
\* and with a uri setIsTranscribing(true) and the fetch. Rejected: the outer
\* catch (which only logs, or returns on 'audio data'), then finally.
FinalizeOutcomes == {"uri", "noUri", "noAudio", "error"}

\* stopAndUnloadAsync() rejected: the outer catch returns on 'audio data' and
\* logs anything else; then the outer finally. recordingRef keeps the handle.
FinalizeRejected_KeepsGuard(i) ==
  /\ stops' = DropTask(stops, i)
  /\ UNCHANGED <<isTransitioningRef, recordingRef, isTranscribing, uploads>>

FinalizeRejected(i) ==
  /\ isTransitioningRef' = FALSE
  /\ stops' = DropTask(stops, i)
  /\ UNCHANGED <<recordingRef, isTranscribing, uploads>>

StopFinalizeDone(i) ==
  /\ StopAt(i, "finalize")
  /\ finalized' = finalized \cup {stops[i].rec}
  /\ \E o \in FinalizeOutcomes :
       CASE o = "uri" ->
              /\ recordingRef' = 0
              /\ isTranscribing' = TRUE
              /\ uploads' = [uploads EXCEPT ![stops[i].rec] = @ + 1]
              /\ stops' = SetTask(stops, i, [stops[i] EXCEPT !.pc = "fetch"])
              /\ UNCHANGED isTransitioningRef
         [] o = "noUri" ->
              /\ recordingRef' = 0
              /\ isTransitioningRef' = FALSE
              /\ stops' = DropTask(stops, i)
              /\ UNCHANGED <<isTranscribing, uploads>>
         [] OTHER -> FinalizeRejected(i)
  /\ UNCHANGED srvVars
  /\ UNCHANGED auxVars
  /\ UNCHANGED p8Vars
  /\ UNCHANGED <<isRecordingRef, isPressingRef, pendingStartRef, holdTimerRef,
                 maxTimerRef, pollingIntervalRef, isRecording, renderedTranscribing,
                 starts, unmountFinalize, envVars, created, callbacks, gesture,
                 retriggered, disposedActive>>

\* The inner finally: setIsTranscribing(false), then await deleteAsync(uri).
UploadFinally_KeepsTranscribing(i, res) ==
  /\ isTranscribing' = (isTranscribing /\ res # "transcript")
  /\ stops' = SetTask(stops, i, [stops[i] EXCEPT !.pc = "delete", !.result = res])

UploadFinally_NoDeleteOnError(i, res) ==
  /\ isTranscribing' = FALSE
  /\ stops' = IF res = "transcript"
              THEN SetTask(stops, i, [stops[i] EXCEPT !.pc = "delete", !.result = res])
              ELSE DropTask(stops, i)

UploadFinally(i, res) ==
  /\ isTranscribing' = FALSE
  /\ stops' = SetTask(stops, i, [stops[i] EXCEPT !.pc = "delete", !.result = res])

\* fetch settled: rejected (transport), a non-ok status, or ok (await json()).
StopFetchDone(i) ==
  /\ StopAt(i, "fetch")
  /\ \/ UploadFinally(i, "fetchErr")
     \/ UploadFinally(i, "notOk")
     \/ /\ stops' = SetTask(stops, i, [stops[i] EXCEPT !.pc = "json"])
        /\ UNCHANGED isTranscribing
  /\ UNCHANGED srvVars
  /\ UNCHANGED auxVars
  /\ UNCHANGED p8Vars
  /\ UNCHANGED <<recordingRef, isRecordingRef, isTransitioningRef, isPressingRef,
                 pendingStartRef, holdTimerRef, maxTimerRef, pollingIntervalRef,
                 isRecording, renderedTranscribing, starts, unmountFinalize,
                 envVars, histVars>>

\* if (result?.transcript) onRecordingComplete(result)
HasTranscript_Never(body) == FALSE

HasTranscript(body) == body = "transcript"

\* response.json() settled: rejected, or a body with or without a transcript.
StopJsonDone(i) ==
  /\ StopAt(i, "json")
  /\ \E body \in {"jsonErr", "noTranscript", "transcript"} :
       /\ UploadFinally(i, body)
       /\ callbacks' = IF HasTranscript(body)
                         THEN [callbacks EXCEPT ![stops[i].rec] = @ + 1]
                         ELSE callbacks
  /\ UNCHANGED srvVars
  /\ UNCHANGED auxVars
  /\ UNCHANGED p8Vars
  /\ UNCHANGED <<recordingRef, isRecordingRef, isTransitioningRef, isPressingRef,
                 pendingStartRef, holdTimerRef, maxTimerRef, pollingIntervalRef,
                 isRecording, renderedTranscribing, starts, unmountFinalize,
                 envVars, created, finalized, uploads, gesture, retriggered,
                 disposedActive>>

\* deleteAsync settled (a rejection is ignored), then the outer finally.
StopDeleteDone(i) ==
  /\ StopAt(i, "delete")
  /\ isTransitioningRef' = FALSE
  /\ stops' = DropTask(stops, i)
  /\ UNCHANGED srvVars
  /\ UNCHANGED auxVars
  /\ UNCHANGED p8Vars
  /\ UNCHANGED <<recordingRef, isRecordingRef, isPressingRef, pendingStartRef,
                 holdTimerRef, maxTimerRef, pollingIntervalRef, isRecording,
                 isTranscribing, renderedTranscribing, starts, unmountFinalize,
                 envVars, histVars>>

\* ---- timers ----

\* MAX_RECORDING_MS have passed since the start committed.
MaxElapsed ==
  /\ maxTimerRef = "armed"
  /\ maxTimerRef' = "due"
  /\ UNCHANGED srvVars
  /\ UNCHANGED auxVars
  /\ UNCHANGED p8Vars
  /\ UNCHANGED <<recordingRef, isRecordingRef, isTransitioningRef, isPressingRef,
                 pendingStartRef, holdTimerRef, pollingIntervalRef, isRecording,
                 isTranscribing, renderedTranscribing, starts, stops,
                 unmountFinalize, envVars, histVars>>

\* The max-duration timer's callback.
MaxTimerCtl_DirectClear(c) ==
  [c EXCEPT !.maxTimerRef = "fired", !.isRecordingRef = FALSE, !.isRecording = FALSE]

MaxTimerCtl(c) ==
  LET f == [c EXCEPT !.maxTimerRef = "fired"]
  IN IF f.isRecordingRef THEN handleStopRecordingSync(f, "max") ELSE f

MaxTimerFire ==
  /\ maxTimerRef = "due"
  /\ Len(stops) < MaxStops
  /\ SetCtl(MaxTimerCtl(Ctl))
  /\ UNCHANGED srvVars
  /\ UNCHANGED auxVars
  /\ UNCHANGED p8Vars
  /\ UNCHANGED <<isPressingRef, isTranscribing, renderedTranscribing, starts,
                 unmountFinalize, envVars, histVars>>

\* One tick of the polling interval; a tick that finds nothing to do changes
\* nothing.
PollStops == isRecordingRef /\ ~isPressingRef

PollTick ==
  /\ pollingIntervalRef = "on"
  /\ PollStops
  /\ Len(stops) < MaxStops
  /\ SetCtl(handleStopRecordingSync(Ctl, "poll"))
  /\ UNCHANGED srvVars
  /\ UNCHANGED auxVars
  /\ UNCHANGED p8Vars
  /\ UNCHANGED <<isPressingRef, isTranscribing, renderedTranscribing, starts,
                 unmountFinalize, envVars, histVars>>

\* React re-renders: the handlers of the new render see the current state.
Render ==
  /\ ~unmounted
  /\ renderedTranscribing # isTranscribing
  /\ renderedTranscribing' = isTranscribing
  /\ UNCHANGED srvVars
  /\ UNCHANGED auxVars
  /\ UNCHANGED p8Vars
  /\ UNCHANGED <<isPressingRef, ctlVars, isTranscribing, starts, unmountFinalize,
                 envVars, histVars>>

\* ---- unmount ----
UnmountCtl_ViaStop(c) ==
  LET s == handleStopRecordingSync(stopPolling(clearMaxTimer(clearHoldTimer(c))), "unmount")
  IN [s EXCEPT !.recordingRef = 0]

UnmountCtl(c) ==
  LET t == stopPolling(clearMaxTimer(clearHoldTimer(c)))
  IN [t EXCEPT !.isRecordingRef = FALSE, !.recordingRef = 0]

\* if (recordingRef.current) recordingRef.current.stopAndUnloadAsync()
UnmountRelease(ref) == IF ref # 0 THEN {ref} ELSE {}

Unmount ==
  /\ ~unmounted
  /\ unmounted' = TRUE
  /\ isPressingRef' = FALSE
  /\ disposedActive' = IF isRecordingRef THEN recordingRef ELSE 0
  /\ unmountFinalize' = UnmountRelease(recordingRef)
  /\ SetCtl(UnmountCtl(Ctl))
  /\ pressed' = FALSE
  /\ pressAge' = "none"
  /\ timerOfPress' = FALSE
  /\ idleAtPress' = FALSE
  /\ refusedByStatus' = FALSE
  /\ UNCHANGED srvVars
  /\ UNCHANGED auxVars
  /\ UNCHANGED p8Vars
  /\ UNCHANGED <<isTranscribing, renderedTranscribing, starts, created, finalized,
                 uploads, callbacks, gesture, retriggered>>

\* The unmount-time stopAndUnloadAsync().catch(() => {}) settled.
UnmountFinalizeDone ==
  /\ \E h \in unmountFinalize :
       /\ finalized' = finalized \cup {h}
       /\ unmountFinalize' = unmountFinalize \ {h}
  /\ UNCHANGED srvVars
  /\ UNCHANGED auxVars
  /\ UNCHANGED p8Vars
  /\ UNCHANGED <<isPressingRef, ctlVars, isTranscribing, renderedTranscribing,
                 starts, envVars, created, uploads, callbacks, gesture,
                 retriggered, disposedActive>>

Next ==
  \/ handlePressIn
  \/ handlePressOut
  \/ ReleaseLost
  \/ HoldElapsed
  \/ StaleHoldTimerDue
  \/ HoldTimerFire
  \/ \E i \in 1..MaxStarts : StartPermDone(i) \/ StartModeDone(i) \/ StartCreateDone(i)
  \/ \E i \in 1..MaxStops :
       StopFinalizeDone(i) \/ StopFetchDone(i) \/ StopJsonDone(i) \/ StopDeleteDone(i)
  \/ MaxElapsed
  \/ MaxTimerFire
  \/ PollTick
  \/ Render
  \/ Unmount
  \/ UnmountFinalizeDone

Spec == Init /\ [][Next]_vars

\* A timer whose delay has elapsed runs its callback, and time passes.
FairSpec == Spec /\ WF_vars(MaxElapsed) /\ WF_vars(MaxTimerFire)

TypeOK ==
  /\ recordingRef \in 0..MaxStarts
  /\ holdTimerRef \in TimerStates
  /\ maxTimerRef \in TimerStates
  /\ pollingIntervalRef \in {"null", "on"}
  /\ Len(starts) <= MaxStarts
  /\ Len(stops) <= MaxStops
  /\ gesture \in {"none", "taps", "other"}

\* ======================= the press-id variant =======================

\* ---- bounds ----
MaxPressId == 4

\* The timer callback's condition, and handleStartRecording's first two checks.
PressCurrent_NoIdCheck(expectedPressId) ==
  /\ isPressActiveRef
  /\ longPressTimeoutRef # 0

PressCurrent(expectedPressId) ==
  /\ expectedPressId = currentPressIdRef
  /\ isPressActiveRef
  /\ longPressTimeoutRef # 0

\* Guard against duplicate start calls and transitions.
StartGuard8 == ~isRecordingRef /\ ~isTransitioningRef

\* "Check again AFTER async operations - press might have been released"
RecheckAfterSetup(expectedPressId) ==
  /\ expectedPressId = currentPressIdRef
  /\ isPressActiveRef
  /\ longPressTimeoutRef # 0

RecheckAfterCreate_Skipped(expectedPressId) == TRUE

\* "Check ONE MORE TIME before actually starting"
RecheckAfterCreate(expectedPressId) ==
  /\ expectedPressId = currentPressIdRef
  /\ isPressActiveRef
  /\ longPressTimeoutRef # 0

\* clearTimeout(id): the pending callback with that id, if any, is dropped.
clearTimeout(id) == {t \in timeouts : t.id # id}

\* handlePressIn: a new press id, the press is active, a new 150 ms timer whose
\* callback captures the id. A timer still stored in the ref is not cleared.
handlePressIn8 ==
  /\ ~unmounted
  /\ ~pressed
  /\ currentPressIdRef < MaxPressId
  /\ currentPressIdRef' = currentPressIdRef + 1
  /\ isPressActiveRef' = TRUE
  /\ timeouts' = timeouts \cup {[id |-> currentPressIdRef + 1, st |-> "armed"]}
  /\ longPressTimeoutRef' = currentPressIdRef + 1
  /\ pressed' = TRUE
  /\ pressAge' = "short"
  /\ UNCHANGED cancelled
  /\ UNCHANGED srvVars
  /\ UNCHANGED auxVars
  /\ UNCHANGED p6Vars
  /\ UNCHANGED <<recordingRef, isRecordingRef, isTransitioningRef, isRecording,
                 starts, stops, unmountFinalize, unmounted, created, finalized,
                 uploads, callbacks, disposedActive, recordingStartTimeRef>>

\* isCancel = duration < 400, with duration 0 when no start time is stored.
IsCancel_Never == FALSE

IsCancel == recordingStartTimeRef # "old"

\* handleStopRecording up to its first await. Called from handlePressOut only.
handleStopRecording8 ==
  IF ~isRecordingRef \/ isTransitioningRef
  THEN UNCHANGED <<isRecordingRef, isRecording, recordingStartTimeRef,
                   isTransitioningRef, stops, cancelled>>
  ELSE /\ isRecordingRef' = FALSE
       /\ cancelled' = IF IsCancel /\ recordingRef # 0
                       THEN cancelled \cup {recordingRef} ELSE cancelled
       /\ isRecording' = FALSE
       /\ recordingStartTimeRef' = "null"
       /\ IF recordingRef = 0
          THEN /\ isTransitioningRef' = FALSE
               /\ stops' = stops
          ELSE /\ isTransitioningRef' = TRUE
               /\ stops' = Append(stops,
                    [rec |-> recordingRef, by |-> "release",
                     pc |-> IF IsCancel THEN "cancelFinalize" ELSE "finalize",
                     result |-> "none"])

\* handlePressOut: a release event (pressed) or a duplicate of one (~pressed).
\* The ref still holds the id of a timer that has fired, so the first branch
\* is taken whenever a press-down stored one and no press-up cleared it.
handlePressOut8 ==
  /\ ~unmounted
  /\ currentPressIdRef < MaxPressId
  /\ Len(stops) < MaxStops
  /\ isPressActiveRef' = FALSE
  /\ currentPressIdRef' = currentPressIdRef + 1
  /\ IF longPressTimeoutRef # 0
     THEN /\ timeouts' = clearTimeout(longPressTimeoutRef)
          /\ longPressTimeoutRef' = 0
          /\ UNCHANGED <<isRecordingRef, isRecording, recordingStartTimeRef,
                         isTransitioningRef, stops, cancelled>>
     ELSE /\ handleStopRecording8
          /\ UNCHANGED <<timeouts, longPressTimeoutRef>>
  /\ pressed' = FALSE
  /\ pressAge' = "none"
  /\ UNCHANGED srvVars
  /\ UNCHANGED auxVars
  /\ UNCHANGED p6Vars
  /\ UNCHANGED <<recordingRef, starts, unmountFinalize, unmounted, created,
                 finalized, uploads, callbacks, disposedActive>>

\* The platform drops the release event: the finger is up, no handler runs.
ReleaseLost8 ==
  /\ ~unmounted
  /\ pressed
  /\ pressed' = FALSE
  /\ pressAge' = "none"
  /\ UNCHANGED srvVars
  /\ UNCHANGED auxVars
  /\ UNCHANGED p6Vars
  /\ UNCHANGED p8Vars
  /\ UNCHANGED <<recordingRef, isRecordingRef, isTransitioningRef, isRecording,
                 starts, stops, unmountFinalize, unmounted, created, finalized,
                 uploads, callbacks, disposedActive>>

\* 150 ms have passed since the press-down: the timer of this press is due.
HoldElapsed8 ==
  /\ pressed
  /\ pressAge = "short"
  /\ pressAge' = "long"
  /\ timeouts' = {IF t.id = currentPressIdRef THEN [t EXCEPT !.st = "due"] ELSE t :
                    t \in timeouts}
  /\ UNCHANGED cancelled
  /\ UNCHANGED srvVars
  /\ UNCHANGED auxVars
  /\ UNCHANGED p6Vars
  /\ UNCHANGED <<isPressActiveRef, currentPressIdRef, longPressTimeoutRef,
                 recordingStartTimeRef>>
  /\ UNCHANGED <<recordingRef, isRecordingRef, isTransitioningRef, isRecording,
                 starts, stops, unmountFinalize, pressed, unmounted, created,
                 finalized, uploads, callbacks, disposedActive>>

\* A timer that no press-up cleared (lost release) becomes due on its own.
StaleTimeoutDue8 ==
  /\ \E t \in timeouts :
       /\ t.st = "armed"
       /\ ~pressed \/ t.id # currentPressIdRef
       /\ timeouts' = (timeouts \ {t}) \cup {[t EXCEPT !.st = "due"]}
  /\ UNCHANGED cancelled
  /\ UNCHANGED srvVars
  /\ UNCHANGED auxVars
  /\ UNCHANGED p6Vars
  /\ UNCHANGED <<isPressActiveRef, currentPressIdRef, longPressTimeoutRef,
                 recordingStartTimeRef>>
  /\ UNCHANGED <<recordingRef, isRecordingRef, isTransitioningRef, isRecording,
                 starts, stops, unmountFinalize, pressed, pressAge, unmounted,
                 created, finalized, uploads, callbacks, disposedActive>>

\* handleStartRecording(expectedPressId) up to its first await.
handleStartRecording8(expectedPressId) ==
  IF PressCurrent(expectedPressId) /\ StartGuard8
  THEN /\ isTransitioningRef' = TRUE
       /\ starts' = Append(starts,
            [pc |-> "perm", expected |-> expectedPressId, rec |-> 0])
  ELSE UNCHANGED <<isTransitioningRef, starts>>

\* The callback of a 150 ms timer; the ref keeps the id of the fired timer.
TimeoutFire8 ==
  /\ Cardinality(created) + Len(starts) < MaxStarts
  /\ \E t \in timeouts :
       /\ t.st = "due"
       /\ timeouts' = timeouts \ {t}
       /\ IF PressCurrent(t.id)
          THEN handleStartRecording8(t.id)
          ELSE UNCHANGED <<isTransitioningRef, starts>>
  /\ UNCHANGED cancelled
  /\ UNCHANGED srvVars
  /\ UNCHANGED auxVars
  /\ UNCHANGED p6Vars
  /\ UNCHANGED <<isPressActiveRef, currentPressIdRef, longPressTimeoutRef,
                 recordingStartTimeRef>>
  /\ UNCHANGED <<recordingRef, isRecordingRef, isRecording, stops,
                 unmountFinalize, pressed, pressAge, unmounted, created,
                 finalized, uploads, callbacks, disposedActive>>

\* The catch block (a rejected await) or an abort before createAsync, then
\* finally: the call is over, nothing but the transition guard changes.
StartEnd8(i) ==
  /\ isTransitioningRef' = FALSE
  /\ starts' = DropTask(starts, i)
  /\ UNCHANGED <<recordingRef, isRecordingRef, isRecording, created,
                 recordingStartTimeRef>>

\* await Audio.requestPermissionsAsync() settled.
Start8PermDone(i) ==
  /\ i \in DOMAIN starts
  /\ starts[i].pc = "perm"
  /\ \/ /\ starts' = SetTask(starts, i, [starts[i] EXCEPT !.pc = "mode"])
        /\ UNCHANGED <<recordingRef, isRecordingRef, isTransitioningRef,
                       isRecording, created, recordingStartTimeRef>>
     \/ StartEnd8(i)
  /\ UNCHANGED cancelled
  /\ UNCHANGED srvVars
  /\ UNCHANGED auxVars
  /\ UNCHANGED p6Vars
  /\ UNCHANGED <<isPressActiveRef, currentPressIdRef, longPressTimeoutRef, timeouts>>
  /\ UNCHANGED <<stops, unmountFinalize, pressed, pressAge, unmounted, finalized,
                 uploads, callbacks, disposedActive>>

\* await Audio.setAudioModeAsync() settled: rejected, or resolved and then the
\* re-check that decides whether createAsync is called.
Start8ModeDone(i) ==
  /\ i \in DOMAIN starts
  /\ starts[i].pc = "mode"
  /\ \/ StartEnd8(i)
     \/ IF RecheckAfterSetup(starts[i].expected)
        THEN /\ starts' = SetTask(starts, i, [starts[i] EXCEPT !.pc = "create"])
             /\ UNCHANGED <<recordingRef, isRecordingRef, isTransitioningRef,
                            isRecording, created, recordingStartTimeRef>>
        ELSE StartEnd8(i)
  /\ UNCHANGED cancelled
  /\ UNCHANGED srvVars
  /\ UNCHANGED auxVars
  /\ UNCHANGED p6Vars
  /\ UNCHANGED <<isPressActiveRef, currentPressIdRef, longPressTimeoutRef, timeouts>>
  /\ UNCHANGED <<stops, unmountFinalize, pressed, pressAge, unmounted, finalized,
                 uploads, callbacks, disposedActive>>

\* createAsync settled: rejected, or resolved with a new handle h and then the
\* last re-check: commit, or await recording.stopAndUnloadAsync() on h.
Start8CreateDone(i) ==
  /\ i \in DOMAIN starts
  /\ starts[i].pc = "create"
  /\ \/ StartEnd8(i)
     \/ LET h == FreshHandle IN
        /\ created' = created \cup {h}
        /\ IF RecheckAfterCreate(starts[i].expected)
           THEN /\ recordingRef' = h
                /\ recordingStartTimeRef' = "recent"
                /\ isRecordingRef' = TRUE
                /\ isRecording' = TRUE
                /\ isTransitioningRef' = FALSE
                /\ starts' = DropTask(starts, i)
           ELSE /\ starts' = SetTask(starts, i,
                     [starts[i] EXCEPT !.pc = "abort", !.rec = h])
                /\ UNCHANGED <<recordingRef, recordingStartTimeRef, isRecordingRef,
                               isRecording, isTransitioningRef>>
  /\ UNCHANGED cancelled
  /\ UNCHANGED srvVars
  /\ UNCHANGED auxVars
  /\ UNCHANGED p6Vars
  /\ UNCHANGED <<isPressActiveRef, currentPressIdRef, longPressTimeoutRef, timeouts>>
  /\ UNCHANGED <<stops, unmountFinalize, pressed, pressAge, unmounted, finalized,
                 uploads, callbacks, disposedActive>>

\* The aborting stopAndUnloadAsync() settled (a rejection is ignored).
Start8AbortDone(i) ==
  /\ i \in DOMAIN starts
  /\ starts[i].pc = "abort"
  /\ finalized' = finalized \cup {starts[i].rec}
  /\ isTransitioningRef' = FALSE
  /\ starts' = DropTask(starts, i)
  /\ UNCHANGED srvVars
  /\ UNCHANGED auxVars
  /\ UNCHANGED p6Vars
  /\ UNCHANGED p8Vars
  /\ UNCHANGED <<recordingRef, isRecordingRef, isRecording, stops,
                 unmountFinalize, pressed, pressAge, unmounted, created, uploads,
                 callbacks, disposedActive>>

\* 400 ms have passed since the start committed.
CaptureElapsed8 ==
  /\ recordingStartTimeRef = "recent"
  /\ recordingStartTimeRef' = "old"
  /\ UNCHANGED cancelled
  /\ UNCHANGED srvVars
  /\ UNCHANGED auxVars
  /\ UNCHANGED p6Vars
  /\ UNCHANGED <<isPressActiveRef, currentPressIdRef, longPressTimeoutRef, timeouts>>
  /\ UNCHANGED <<recordingRef, isRecordingRef, isTransitioningRef, isRecording,
                 starts, stops, unmountFinalize, pressed, pressAge, unmounted,
                 created, finalized, uploads, callbacks, disposedActive>>

\* The outer finally of handleStopRecording: the call is over.
StopEnd8(i) ==
  /\ isTransitioningRef' = FALSE
  /\ stops' = DropTask(stops, i)

\* The cancel path: stopAndUnloadAsync() settled (a rejection is ignored),
\* recordingRef = null, return.
Stop8CancelDone(i) ==
  /\ i \in DOMAIN stops
  /\ stops[i].pc = "cancelFinalize"
  /\ finalized' = finalized \cup {stops[i].rec}
  /\ recordingRef' = 0
  /\ StopEnd8(i)
  /\ UNCHANGED srvVars
  /\ UNCHANGED auxVars
  /\ UNCHANGED p6Vars
  /\ UNCHANGED p8Vars
  /\ UNCHANGED <<isRecordingRef, isRecording, starts, unmountFinalize, pressed,
                 pressAge, unmounted, created, uploads, callbacks, disposedActive>>

\* stopAndUnloadAsync() settled. Rejected: the outer catch, the ref keeps the
\* handle. Resolved: recordingRef.current.getURI() throws when an unmount has
\* nulled the ref meanwhile; else the ref is nulled and a uri is uploaded.
Stop8FinalizeDone(i) ==
  /\ i \in DOMAIN stops
  /\ stops[i].pc = "finalize"
  /\ finalized' = finalized \cup {stops[i].rec}
  /\ \/ /\ StopEnd8(i)
        /\ UNCHANGED <<recordingRef, uploads>>
     \/ /\ recordingRef = 0
        /\ StopEnd8(i)
        /\ UNCHANGED <<recordingRef, uploads>>
     \/ /\ recordingRef # 0
        /\ recordingRef' = 0
        /\ \/ /\ StopEnd8(i)
              /\ UNCHANGED uploads
           \/ /\ uploads' = [uploads EXCEPT ![stops[i].rec] = @ + 1]
              /\ stops' = SetTask(stops, i, [stops[i] EXCEPT !.pc = "fetch"])
              /\ UNCHANGED isTransitioningRef
  /\ UNCHANGED srvVars
  /\ UNCHANGED auxVars
  /\ UNCHANGED p6Vars
  /\ UNCHANGED p8Vars
  /\ UNCHANGED <<isRecordingRef, isRecording, starts, unmountFinalize, pressed,
                 pressAge, unmounted, created, callbacks, disposedActive>>

\* fetch settled: rejected or a non-ok status (the inner catch, then the inner
\* finally), or ok (await response.json()).
Stop8FetchDone(i) ==
  /\ i \in DOMAIN stops
  /\ stops[i].pc = "fetch"
  /\ \E res \in {"fetchErr", "notOk", "ok"} :
       stops' = SetTask(stops, i,
         IF res = "ok" THEN [stops[i] EXCEPT !.pc = "json"]
         ELSE [stops[i] EXCEPT !.pc = "delete", !.result = res])
  /\ UNCHANGED srvVars
  /\ UNCHANGED auxVars
  /\ UNCHANGED p6Vars
  /\ UNCHANGED p8Vars
  /\ UNCHANGED <<recordingRef, isRecordingRef, isTransitioningRef, isRecording,
                 starts, unmountFinalize, pressed, pressAge, unmounted, created,
                 finalized, uploads, callbacks, disposedActive>>

\* if (result.transcript) onRecordingComplete(result)
HasTranscript8(body) == body = "transcript"

\* response.json() settled: rejected, or a body with or without a transcript.
Stop8JsonDone(i) ==
  /\ i \in DOMAIN stops
  /\ stops[i].pc = "json"
  /\ \E body \in {"jsonErr", "noTranscript", "transcript"} :
       /\ stops' = SetTask(stops, i, [stops[i] EXCEPT !.pc = "delete", !.result = body])
       /\ callbacks' = IF HasTranscript8(body)
                       THEN [callbacks EXCEPT ![stops[i].rec] = @ + 1]
                       ELSE callbacks
  /\ UNCHANGED srvVars
  /\ UNCHANGED auxVars
  /\ UNCHANGED p6Vars
  /\ UNCHANGED p8Vars
  /\ UNCHANGED <<recordingRef, isRecordingRef, isTransitioningRef, isRecording,
                 starts, unmountFinalize, pressed, pressAge, unmounted, created,
                 finalized, uploads, disposedActive>>

\* deleteAsync settled (a rejection is ignored), then the outer finally.
Stop8DeleteDone(i) ==
  /\ i \in DOMAIN stops
  /\ stops[i].pc = "delete"
  /\ StopEnd8(i)
  /\ UNCHANGED srvVars
  /\ UNCHANGED auxVars
  /\ UNCHANGED p6Vars
  /\ UNCHANGED p8Vars
  /\ UNCHANGED <<recordingRef, isRecordingRef, isRecording, starts,
                 unmountFinalize, pressed, pressAge, unmounted, created, finalized,
                 uploads, callbacks, disposedActive>>

\* The unmount cleanup: the stored timer is cleared, the recording flag is
\* dropped and the handle in recordingRef is released without awaiting.
Unmount8 ==
  /\ ~unmounted
  /\ unmounted' = TRUE
  /\ timeouts' = IF longPressTimeoutRef # 0 THEN clearTimeout(longPressTimeoutRef)
                 ELSE timeouts
  /\ longPressTimeoutRef' = 0
  /\ isRecordingRef' = FALSE
  /\ disposedActive' = IF isRecordingRef THEN recordingRef ELSE 0
  /\ unmountFinalize' = UnmountRelease(recordingRef)
  /\ recordingRef' = 0
  /\ pressed' = FALSE
  /\ pressAge' = "none"
  /\ UNCHANGED cancelled
  /\ UNCHANGED srvVars
  /\ UNCHANGED auxVars
  /\ UNCHANGED p6Vars
  /\ UNCHANGED <<isPressActiveRef, currentPressIdRef, recordingStartTimeRef>>
  /\ UNCHANGED <<isTransitioningRef, isRecording, starts, stops, created,
                 finalized, uploads, callbacks>>

Next8 ==
  \/ handlePressIn8
  \/ handlePressOut8
  \/ ReleaseLost8
  \/ HoldElapsed8
  \/ StaleTimeoutDue8
  \/ TimeoutFire8
  \/ \E i \in 1..MaxStarts :
       Start8PermDone(i) \/ Start8ModeDone(i) \/ Start8CreateDone(i) \/ Start8AbortDone(i)
  \/ \E i \in 1..MaxStops :
       \/ Stop8CancelDone(i) \/ Stop8FinalizeDone(i) \/ Stop8FetchDone(i)
       \/ Stop8JsonDone(i) \/ Stop8DeleteDone(i)
  \/ CaptureElapsed8
  \/ Unmount8
  \/ UnmountFinalizeDone

Spec8 == Init /\ [][Next8]_vars

\* ======================= stt-server: POST /combine =======================

\* ---- bounds ----
MaxTexts == 3

\* everything of the RecordButton models
clientVars == <<recordingRef, isRecordingRef, isTransitioningRef, isPressingRef,
                pendingStartRef, holdTimerRef, maxTimerRef, pollingIntervalRef,
                isRecording, isTranscribing, renderedTranscribing, starts, stops,
                unmountFinalize, pressed, pressAge, timerOfPress, idleAtPress,
                refusedByStatus, unmounted,
                created, finalized, uploads, callbacks, gesture, retriggered,
                disposedActive, p8Vars>>

\* The entries a texts array may hold: a string with visible characters, a
\* string of white space only, the empty string, a truthy value that is no
\* string (a number, an object) and a falsy one (null, 0).
Entries == {"text", "blank", "empty", "other", "null"}

NoTexts == [kind |-> "missing", items |-> <<>>]

Bodies ==
  {NoTexts, [kind |-> "notArray", items |-> <<>>]}
    \cup {[kind |-> "array", items |-> a] :
            a \in UNION {[1..n -> Entries] : n \in 0..MaxTexts}}

Truthy(e) == e \in {"text", "blank", "other"}

IsString(e) == e \in {"text", "blank", "empty"}

\* text.trim().length > 0
TrimmedNonEmpty(e) == e = "text"

NonEmptyText_NoTypeCheck(e) == Truthy(e)

\* text && typeof text === 'string' && text.trim().length > 0
NonEmptyText(e) == Truthy(e) /\ IsString(e) /\ TrimmedNonEmpty(e)

\* texts.filter(...).length
RECURSIVE CountNonEmpty(_)
CountNonEmpty(seq) ==
  IF seq = <<>> THEN 0
  ELSE (IF NonEmptyText(Head(seq)) THEN 1 ELSE 0) + CountNonEmpty(Tail(seq))

\* !texts || !Array.isArray(texts) || texts.length === 0
TextsMissing(t) == t.kind \in {"missing", "notArray"} \/ Len(t.items) = 0

\* The three validation steps; 0 when the request passes them.
CombineValidate(t) ==
  IF TextsMissing(t) THEN 400
  ELSE IF Len(t.items) < 2 THEN 400
  ELSE IF CountNonEmpty(t.items) < 2 THEN 400
  ELSE 0

\* The handler up to its await: a rejected request is answered with 400, an
\* accepted one calls the model.
CombineRequest ==
  /\ combinePc = "idle"
  /\ \E t \in Bodies :
       /\ texts' = t
       /\ IF CombineValidate(t) # 0
          THEN /\ combineStatus' = CombineValidate(t)
               /\ combinePc' = "done"
               /\ llmCalls' = 0
          ELSE /\ combineStatus' = 0
               /\ combinePc' = "completion"
               /\ llmCalls' = 1
  /\ combinedText' = "none"
  /\ UNCHANGED clientVars
  /\ UNCHANGED auxVars

\* What completion.choices[0]?.message?.content?.trim() || '' can be.
Completions == {"throws", "noContent", "blank", "text"}

\* combinedText is empty when the content is missing or white space only.
CombinedTextOf(c) == IF c = "text" THEN "text" ELSE "none"

\* The completion settled: rejected (catch: 500), empty combinedText (500) or
\* a text (200 with combinedText).
CombineCompletionDone ==
  /\ combinePc = "completion"
  /\ \E c \in Completions :
       IF c = "throws" \/ CombinedTextOf(c) = "none"
       THEN combineStatus' = 500 /\ combinedText' = "none"
       ELSE combineStatus' = 200 /\ combinedText' = CombinedTextOf(c)
  /\ combinePc' = "done"
  /\ UNCHANGED <<texts, llmCalls>>
  /\ UNCHANGED clientVars
  /\ UNCHANGED auxVars

\* The next request is handled by a fresh call of the handler.
CombineNext ==
  /\ combinePc = "done"
  /\ combinePc' = "idle"
  /\ combineStatus' = 0
  /\ combinedText' = "none"
  /\ llmCalls' = 0
  /\ texts' = NoTexts
  /\ UNCHANGED clientVars
  /\ UNCHANGED auxVars

NextCombine == CombineRequest \/ CombineCompletionDone \/ CombineNext

SpecCombine == Init /\ [][NextCombine]_vars

\* ======================= app: combineCards =======================

\* The arguments the app can pass: nothing, or a list of up to MaxTexts strings.
CardTexts ==
  {NoTexts} \cup
  {[kind |-> "array", items |-> a] :
     a \in UNION {[1..n -> {"text", "blank", "empty"}] : n \in 0..MaxTexts}}

\* if (!texts || texts.length < 2) throw
CardsTooFew_OnlyEmpty(t) == t.kind = "missing" \/ Len(t.items) < 1

CardsTooFew(t) == t.kind = "missing" \/ Len(t.items) < 2

\* The call up to its first await: the length check, then the fetch.
combineCards ==
  /\ cardsPc = "idle"
  /\ \E t \in CardTexts :
       /\ cardsTexts' = t
       /\ IF CardsTooFew(t)
            THEN cardsPc' = "thrown" /\ cardsRequests' = 0
            ELSE cardsPc' = "fetch" /\ cardsRequests' = 1
  /\ UNCHANGED <<cardsResponse, cardsBody, cardsResult>>
  /\ UNCHANGED <<clientVars, srvVars, transcribeVars, storeVars>>

\* fetch settled: rejected (the catch rethrows), a non-ok status (await
\* response.json().catch(...), then throw) or an ok one (await response.json()).
CardsFetchDone ==
  /\ cardsPc = "fetch"
  /\ \/ cardsPc' = "thrown" /\ UNCHANGED cardsResponse
     \/ cardsPc' = "errorJson" /\ cardsResponse' = "notOk"
     \/ cardsPc' = "json" /\ cardsResponse' = "ok"
  /\ UNCHANGED <<cardsTexts, cardsRequests, cardsBody, cardsResult>>
  /\ UNCHANGED <<clientVars, srvVars, transcribeVars, storeVars>>

\* The error body was parsed, or its parse failed and was replaced: throw.
CardsErrorJsonDone ==
  /\ cardsPc = "errorJson"
  /\ cardsPc' = "thrown"
  /\ UNCHANGED <<cardsTexts, cardsRequests, cardsResponse, cardsBody, cardsResult>>
  /\ UNCHANGED <<clientVars, srvVars, transcribeVars, storeVars>>

\* if (!result.combinedText) throw
HasCombinedText(b) == b = "text"

\* response.json() settled: rejected, or a body whose combinedText is a
\* non-empty string, an empty one, or missing.
CardsJsonDone ==
  /\ cardsPc = "json"
  /\ \/ cardsPc' = "thrown" /\ UNCHANGED <<cardsBody, cardsResult>>
     \/ \E b \in {"text", "empty", "missing"} :
          /\ cardsBody' = b
          /\ IF HasCombinedText(b)
               THEN cardsPc' = "returned" /\ cardsResult' = b
               ELSE cardsPc' = "thrown" /\ UNCHANGED cardsResult
  /\ UNCHANGED <<cardsTexts, cardsRequests, cardsResponse>>
  /\ UNCHANGED <<clientVars, srvVars, transcribeVars, storeVars>>

\* The next call of combineCards.
CardsNext ==
  /\ cardsPc \in {"returned", "thrown"}
  /\ cardsPc' = "idle"
  /\ cardsTexts' = NoTexts
  /\ cardsRequests' = 0
  /\ cardsResponse' = "none"
  /\ cardsBody' = "none"
  /\ cardsResult' = "none"
  /\ UNCHANGED <<clientVars, srvVars, transcribeVars, storeVars>>

NextCards ==
  combineCards \/ CardsFetchDone \/ CardsErrorJsonDone \/ CardsJsonDone \/ CardsNext

SpecCards == Init /\ [][NextCards]_vars

\* ======================= stt-server: POST /transcribe =======================

\* ---- bounds ----
MaxRequests == 2       \* requests handled in one run

TmpFile(n) == [req |-> n, name |-> "tmp"]

\* `${req.file.path}${originalExt}`
FixedFile(n) == [req |-> n, name |-> "fixed"]

NoLlm == [kind |-> "none", summary |-> FALSE, structured |-> "absent"]

\* What the summarization call can come to: rejected, a completion without
\* content, content that JSON.parse rejects, or a parsed object with or
\* without `summary`, and `structured` absent, a list of exercises, or a list
\* with a null element (normalizeExtractedLifts throws on `exercise.sets`).
LlmOutcomes ==
  {[kind |-> k, summary |-> FALSE, structured |-> "absent"] :
     k \in {"rejected", "noContent", "badJson"}}
  \cup
  {[kind |-> "parsed", summary |-> b, structured |-> x] :
     b \in BOOLEAN, x \in {"absent", "lifts", "nullElement"}}

\* summary = parsed.summary || null, assigned only once JSON.parse returned
SummaryOf_Always(c) == "value"

SummaryOf(c) == IF c.kind = "parsed" /\ c.summary THEN "value" ELSE "null"

\* extractedLifts = parsed.structured || null; the normalized list replaces it
\* only if normalizeExtractedLifts returns
LiftsOf(c) == IF c.kind = "parsed" /\ c.structured # "absent" THEN "value" ELSE "null"

\* The else branch of `if (llmResponse)` and the inner catch
SummaryLoggedFailed(c) ==
  \/ c.kind \in {"rejected", "noContent", "badJson"}
  \/ c.kind = "parsed" /\ c.structured = "nullElement"

\* The outer catch: unlink the renamed file if it exists, answer 500.
TranscribeCatch ==
  /\ trUnlinks' = IF FixedFile(trReq') \in trDir' THEN {FixedFile(trReq')} ELSE {}
  /\ trStatus' = 500
  /\ trPc' = "done"

\* The handler up to its first await. multer has stored the upload under a
\* temporary name; fs.renameSync gives it its extension, or throws.
TranscribeRequest ==
  /\ trPc = "idle"
  /\ trReq < MaxRequests
  /\ trReq' = trReq + 1
  /\ \E file \in BOOLEAN :
       /\ trFile' = file
       /\ IF ~file
            THEN /\ trStatus' = 400
                 /\ trPc' = "done"
                 /\ UNCHANGED <<trDir, trUnlinks>>
            ELSE \/ /\ trDir' = trDir \cup {FixedFile(trReq')}
                    /\ trPc' = "stt"
                    /\ UNCHANGED <<trStatus, trUnlinks>>
                 \/ /\ trDir' = trDir \cup {TmpFile(trReq')}
                    /\ TranscribeCatch
  /\ UNCHANGED <<trUnlinkError, trStt, trTranscript, trLlm, trSummary, trLifts,
                 trSummaryFailed>>
  /\ UNCHANGED <<clientVars, srvVars, cardsVars, storeVars>>

\* openai.audio.transcriptions.create settled: rejected (outer catch), or a
\* text, which may be empty; then the summarization call.
TranscribeSttDone ==
  /\ trPc = "stt"
  /\ \/ /\ trStt' = "rejected"
        /\ UNCHANGED <<trReq, trDir>>
        /\ TranscribeCatch
        /\ UNCHANGED trTranscript
     \/ /\ trStt' = "ok"
        /\ \E t \in {"text", "empty"} : trTranscript' = t
        /\ trPc' = "llm"
        /\ UNCHANGED <<trReq, trDir, trUnlinks, trStatus>>
  /\ UNCHANGED <<trFile, trUnlinkError, trLlm, trSummary, trLifts, trSummaryFailed>>
  /\ UNCHANGED <<clientVars, srvVars, cardsVars, storeVars>>

\* openai.chat.completions.create settled and the inner try block is over:
\* fs.unlink(fixedPath, () => {}), then res.json({transcript, summary, extractedLifts}).
TranscribeLlmDone ==
  /\ trPc = "llm"
  /\ \E c \in LlmOutcomes :
       /\ trLlm' = c
       /\ trSummary' = SummaryOf(c)
       /\ trLifts' = LiftsOf(c)
       /\ trSummaryFailed' = SummaryLoggedFailed(c)
  /\ trUnlinks' = {FixedFile(trReq)}
  /\ trStatus' = 200
  /\ trPc' = "done"
  /\ UNCHANGED <<trReq, trFile, trDir, trUnlinkError, trStt, trTranscript>>
  /\ UNCHANGED <<clientVars, srvVars, cardsVars, storeVars>>

\* An fs.unlink call completed: the file is gone, or the call failed and the
\* empty callback dropped the error.
TranscribeUnlinkDone ==
  /\ \E f \in trUnlinks :
       /\ trUnlinks' = trUnlinks \ {f}
       /\ \/ trDir' = trDir \ {f} /\ UNCHANGED trUnlinkError
          \/ trUnlinkError' = TRUE /\ UNCHANGED trDir
  /\ UNCHANGED <<trPc, trReq, trFile, trStatus, trStt, trTranscript, trLlm,
                 trSummary, trLifts, trSummaryFailed>>
  /\ UNCHANGED <<clientVars, srvVars, cardsVars, storeVars>>

\* The next request is handled by a fresh call of the handler; uploads/ keeps
\* what the earlier requests left in it.
TranscribeNext ==
  /\ trPc = "done"
  /\ trUnlinks = {}
  /\ trPc' = "idle"
  /\ trFile' = FALSE
  /\ trUnlinkError' = FALSE
  /\ trStatus' = 0
  /\ trStt' = "none"
  /\ trTranscript' = "none"
  /\ trLlm' = NoLlm
  /\ trSummary' = "none"
  /\ trLifts' = "none"
  /\ trSummaryFailed' = FALSE
  /\ UNCHANGED <<trReq, trDir, trUnlinks>>
  /\ UNCHANGED <<clientVars, srvVars, cardsVars, storeVars>>

NextTranscribe ==
  \/ TranscribeRequest
  \/ TranscribeSttDone
  \/ TranscribeLlmDone
  \/ TranscribeUnlinkDone
  \/ TranscribeNext

SpecTranscribe == Init /\ [][NextTranscribe]_vars

\* ======================= app: useWorkoutStore =======================

\* ---- bounds ----
MaxDays == 2           \* day keys; day 1 is the day shown at mount
MaxAdds == 2           \* addEntry calls in one run

Days == 1..MaxDays

\* Entry ids: 0 is the entry an earlier run stored for a day, n > 0 the nth
\* entry added in this run.
EmptyMap == [keys |-> {}, items |-> {}]

\* serializeWorkouts: one property per day key, holding the day's entries.
serializeWorkouts(map) ==
  {[key |-> k, ids |-> {it[2] : it \in {x \in map.items : x[1] = k}}] : k \in map.keys}

\* deserializeWorkouts: a new map with a new day object per property.
deserializeWorkouts(json) ==
  [keys |-> {d.key : d \in json},
   items |-> UNION {{<<d.key, id>> : id \in d.ids} : d \in json}]

\* What an earlier run can have left in storage: some days, one entry each.
StoredByEarlierRun == {serializeWorkouts([keys |-> ks, items |-> {<<k, 0>> : k \in ks}]) : ks \in SUBSET Days}

\* workoutsByDate.set(key, dayWorkout): the day object of that key is replaced.
SetDay(map, key, ids) ==
  [keys |-> map.keys \cup {key},
   items |-> {x \in map.items : x[1] # key} \cup {<<key, id>> : id \in ids}]

\* loaded.forEach((dayWorkout, key) => workoutsByDate.set(key, dayWorkout))
MergeLoaded(map, loaded) ==
  [keys |-> map.keys \cup loaded.keys,
   items |-> {x \in map.items : x[1] \notin loaded.keys} \cup loaded.items]

\* The first render and the mount effect: useMemo creates the empty day shown,
\* and loadWorkouts() issues AsyncStorage.getItem.
StoreMount ==
  /\ stPc = "unmounted"
  /\ \E json \in StoredByEarlierRun :
       /\ stStorage' = json
       /\ stInitial' = json
  /\ workoutsByDate' = SetDay(workoutsByDate, 1, {})
  /\ stPc' = "reading"
  /\ UNCHANGED <<stLoaded, stSaves, stAdds, stEarly>>
  /\ UNCHANGED <<clientVars, srvVars, cardsVars, transcribeVars>>

\* getItem resolved: loadWorkouts returns the deserialized map (an empty one
\* if nothing is stored).
StoreGetItemDone ==
  /\ stPc = "reading"
  /\ stLoaded' = deserializeWorkouts(stStorage)
  /\ stPc' = "read"
  /\ UNCHANGED <<stStorage, workoutsByDate, stSaves, stAdds, stInitial, stEarly>>
  /\ UNCHANGED <<clientVars, srvVars, cardsVars, transcribeVars>>

\* The then-callback of the mount effect.
StoreLoadMerge ==
  /\ stPc = "read"
  /\ workoutsByDate' = MergeLoaded(workoutsByDate, stLoaded)
  /\ stPc' = "loaded"
  /\ UNCHANGED <<stStorage, stLoaded, stSaves, stAdds, stInitial, stEarly>>
  /\ UNCHANGED <<clientVars, srvVars, cardsVars, transcribeVars>>

\* addEntry(text, targetDate): push the entry to the day's list, then
\* triggerSave(), which serializes the map at once and issues setItem.
addEntry ==
  /\ stPc # "unmounted"
  /\ stAdds < MaxAdds
  /\ stAdds' = stAdds + 1
  /\ \E d \in Days :
       /\ workoutsByDate' = [keys |-> workoutsByDate.keys \cup {d},
                             items |-> workoutsByDate.items \cup {<<d, stAdds'>>}]
       /\ stEarly' = IF stPc # "loaded" THEN stEarly \cup {<<d, stAdds'>>} ELSE stEarly
  /\ stSaves' = Append(stSaves, serializeWorkouts(workoutsByDate'))
  /\ UNCHANGED <<stPc, stStorage, stLoaded, stInitial>>
  /\ UNCHANGED <<clientVars, srvVars, cardsVars, transcribeVars>>

\* The oldest pending setItem completed. AsyncStorage runs its calls one after
\* the other, so it comes after the getItem issued at mount.
StoreSetItemDone ==
  /\ stSaves # <<>>
  /\ stPc # "reading"
  /\ stStorage' = Head(stSaves)
  /\ stSaves' = Tail(stSaves)
  /\ UNCHANGED <<stPc, workoutsByDate, stLoaded, stAdds, stInitial, stEarly>>
  /\ UNCHANGED <<clientVars, srvVars, cardsVars, transcribeVars>>

NextStore ==
  \/ StoreMount
  \/ StoreGetItemDone
  \/ StoreLoadMerge
  \/ addEntry
  \/ StoreSetItemDone

SpecStore == Init /\ [][NextStore]_vars

\* ======================= claims =======================

Idle == ~isRecordingRef /\ ~isTransitioningRef /\ ~isTranscribing

InFlight(h) == {i \in DOMAIN stops : stops[i].rec = h}

\* C1 (no false start): as long as every press so far was released, by a
\* delivered press-up, before the hold threshold had elapsed, the hold timer's
\* callback never ran and no start is in flight, no device handle was created,
\* the recording flag is false and the controller is Idle.
C1_NoFalseStart ==
  gesture \in {"none", "taps"} =>
    /\ holdTimerRef \in {"null", "armed"}
    /\ starts = <<>>
    /\ created = {}
    /\ recordingRef = 0
    /\ ~isRecording
    /\ Idle

\* A tap was released and another press is down, still short of the threshold.
C1_Witness ==
  gesture = "taps" /\ pressed /\ pressAge = "short" /\ holdTimerRef = "armed"

\* C2 (single flight): at most one device handle is created and not yet
\* finalized.
C2_SingleFlight == Cardinality(created \ finalized) <= 1

\* A second session is live after the first one was finalized.
C2_Witness ==
  /\ finalized # {}
  /\ created \ finalized # {}
  /\ isRecordingRef

C5_TimerArmed == isRecordingRef => maxTimerRef \in {"armed", "due"}

C5_SafetyBound ==
  /\ []C5_TimerArmed
  /\ [][(maxTimerRef = "due" /\ maxTimerRef' # "due") => ~isRecordingRef']_vars
  /\ (isRecordingRef ~> ~isRecordingRef)

\* The press is still held and registered as held, and the max-duration timer
\* has stopped the session.
C5_Witness ==
  /\ pressed /\ pressAge = "long" /\ isPressingRef
  /\ ~isRecordingRef
  /\ \E i \in DOMAIN stops : stops[i].by = "max"

\* C6 (disposal safety): once the component has unmounted with a session
\* active, no timer and no poll is pending, no session is active,
\* stopAndUnloadAsync was called on the session's handle, no upload and no
\* result callback is ever made for it, and no stop call ever runs for it.
C6_DisposalSafety ==
  disposedActive # 0 =>
    /\ holdTimerRef = "null" /\ maxTimerRef = "null" /\ pollingIntervalRef = "null"
    /\ ~isRecordingRef /\ recordingRef = 0
    /\ disposedActive \in unmountFinalize \cup finalized
    /\ uploads[disposedActive] = 0
    /\ callbacks[disposedActive] = 0
    /\ InFlight(disposedActive) = {}

\* Unmounted while recording, and the handle's finalize has settled.
C6_Witness == disposedActive # 0 /\ disposedActive \in finalized

\* C8: no session has more than one upload attempt, whatever triggers its
\* stop; and a stop whose finalize yields an artifact has made exactly one.
C8_OneUpload ==
  /\ \A h \in Handles : uploads[h] <= 1
  /\ \A i \in DOMAIN stops :
       stops[i].pc \in {"fetch", "json", "delete"} => uploads[stops[i].rec] = 1

\* A released hold is uploading and a further release event arrived meanwhile.
C8_Witness ==
  /\ retriggered
  /\ \E i \in DOMAIN stops :
       stops[i].by = "release" /\ stops[i].pc = "delete" /\ uploads[stops[i].rec] = 1

\* C9: the result callback runs at most once per session, and once the upload
\* of a session has returned, it has run exactly once if the response was a
\* success with a transcript.
C9_CallbackOnce ==
  /\ \A h \in Handles : callbacks[h] <= 1
  /\ \A i \in DOMAIN stops :
       (stops[i].pc = "delete" /\ stops[i].result = "transcript")
         => callbacks[stops[i].rec] = 1

\* Two sessions have each delivered their result.
C9_Witness == \E h1, h2 \in Handles : h1 # h2 /\ callbacks[h1] = 1 /\ callbacks[h2] = 1

\* C10: after a failed upload (transport error, non-ok status, unparsable
\* body, body without transcript) the callback has not run for that session,
\* and when that stop call returns the controller is Idle.
FailedUpload(t) ==
  t.pc = "delete" /\ t.result \in {"fetchErr", "notOk", "jsonErr", "noTranscript"}

C10_NoCallback ==
  \A i \in DOMAIN stops : FailedUpload(stops[i]) => callbacks[stops[i].rec] = 0

C10_FailureToIdle ==
  /\ []C10_NoCallback
  /\ [][\A i \in DOMAIN stops :
          (FailedUpload(stops[i]) /\ Len(stops') < Len(stops)) => Idle']_vars

\* The stop call of a session whose upload got a non-ok status has returned.
C10_Witness ==
  /\ \E h \in Handles : uploads[h] = 1 /\ callbacks[h] = 0 /\ h \in finalized
  /\ stops = <<>> /\ starts = <<>>
  /\ Idle
  /\ ~unmounted

\* C3 (press-up invokes stop): a press-up delivered for a press that is down,
\* whose hold was confirmed and whose capture session is active, leaves no
\* capture session active: handlePressOut has run handleStopRecording.
C3_PressUpStops ==
  [][(/\ pressed
      /\ pressAge = "long"
      /\ isRecordingRef
      /\ isPressActiveRef
      /\ currentPressIdRef' = currentPressIdRef + 1
      /\ ~isPressActiveRef')
     => ~isRecordingRef']_vars

\* The user released during acquisition: a press-up (or a newer press-down)
\* has moved the press id on, or the press is marked inactive.
C7_Released(expectedPressId) ==
  expectedPressId # currentPressIdRef \/ ~isPressActiveRef

\* C7 (start re-checks the id): when handleStartRecording(expectedPressId)
\* resumes after the permission and audio-mode step and finds the press
\* released, it ends without calling createAsync; when it resumes after
\* createAsync and finds the press released, the new handle is handed to
\* stopAndUnloadAsync() at once and is never stored; and the recording flag is
\* only ever raised by a start whose expectedPressId is the current id of a
\* press that is still active.
C7_StartRechecks ==
  [][/\ \A i \in DOMAIN starts :
          (C7_Released(starts[i].expected) /\ starts' # starts) =>
            /\ ~isRecordingRef' /\ recordingRef' = recordingRef
            /\ starts[i].pc = "mode" =>
                 starts' = <<>> /\ created' = created /\ ~isTransitioningRef'
            /\ (starts[i].pc = "create" /\ created' # created) =>
                 /\ Len(starts') = 1
                 /\ starts'[1].pc = "abort"
                 /\ created' = created \cup {starts'[1].rec}
                 /\ starts'[1].rec \notin created
     /\ (~isRecordingRef /\ isRecordingRef') =>
          \E i \in DOMAIN starts :
            /\ starts[i].pc = "create"
            /\ starts[i].expected = currentPressIdRef
            /\ isPressActiveRef]_vars

\* A handle created for a press that was released during createAsync is being
\* released, and no capture session is active.
C7_Witness ==
  /\ ~isRecordingRef
  /\ recordingRef = 0
  /\ \E i \in DOMAIN starts :
       /\ starts[i].pc = "abort"
       /\ starts[i].expected # currentPressIdRef
       /\ starts[i].rec \in created \ finalized

\* C11 (artifact cleanup): a stop call that has handed its artifact to the
\* upload (fetch or json pending) never returns from there: its next step is
\* the next upload step or the deleteAsync(uri) call of the inner finally,
\* whether the upload succeeded or failed; only a call whose deleteAsync has
\* settled returns.
C11_Uploading(t) == t.pc \in {"fetch", "json"}

C11_DeleteAfterUpload ==
  [][/\ \A i \in DOMAIN stops :
          (C11_Uploading(stops[i]) /\ stops' # stops) =>
            \/ /\ i \in DOMAIN stops'
               /\ stops'[i].rec = stops[i].rec
               /\ stops'[i].pc \in {stops[i].pc, "json", "delete"}
               /\ stops'[i].pc = stops[i].pc => stops'[i] = stops[i]
            \/ /\ i > 1
               /\ stops'[i - 1] = stops[i]
     /\ Len(stops') < Len(stops) =>
          \E i \in DOMAIN stops :
            /\ stops[i].pc \in {"finalize", "delete"}
            /\ stops' = DropTask(stops, i)]_vars

\* The artifact of a session whose upload failed in transport is being deleted
\* while the artifact of no other call is in flight.
C11_Witness ==
  /\ Len(stops) = 1
  /\ stops[1].pc = "delete"
  /\ stops[1].result = "fetchErr"
  /\ uploads[stops[1].rec] = 1
  /\ ~isTranscribing

\* C12 (no valid audio data): when the finalize of a stop call is rejected
\* (recordingRef keeps the handle, which tells this return from the one with
\* no uri), the step makes no upload and no callback, none was or is ever made
\* for that session, and the controller is Idle when the call has returned.
C12_RejectedReturn(i) ==
  /\ stops[i].pc = "finalize"
  /\ stops' = DropTask(stops, i)
  /\ recordingRef' = recordingRef

C12_FinalizeFailureToIdle ==
  /\ [][\A i \in DOMAIN stops :
          C12_RejectedReturn(i) =>
            /\ uploads' = uploads /\ callbacks' = callbacks
            /\ uploads[stops[i].rec] = 0 /\ callbacks[stops[i].rec] = 0
            /\ Idle']_vars
  /\ [](\A h \in Handles :
          (recordingRef = h /\ ~isRecordingRef /\ h \in finalized)
            => uploads[h] = 0 /\ callbacks[h] = 0)

\* The stop call of a session has returned from a rejected finalize: the
\* stale handle is still in recordingRef and nothing is in flight.
C12_Witness ==
  /\ recordingRef # 0
  /\ recordingRef \in finalized
  /\ ~isRecordingRef
  /\ stops = <<>> /\ starts = <<>>
  /\ Idle
  /\ ~unmounted
  /\ uploads[recordingRef] = 0

\* C13 (no stuck state): the return of a start call whose createAsync was
\* rejected, of a stop call whose finalize was rejected and of a stop call
\* whose upload or response parsing failed each leave the controller Idle;
\* whenever no start and no stop call is pending the re-entrancy guard is
\* released and nothing is transcribing; and in such a state, if no session is
\* active and the component is mounted and rendered, the guards of
\* handlePressIn and of startRecording pass for a new press that is held.
Quiescent == starts = <<>> /\ stops = <<>>

C13_CreateFailed(i) ==
  /\ starts[i].pc = "create"
  /\ starts' = DropTask(starts, i)
  /\ created' = created

C13_Recovered ==
  (Quiescent /\ ~isRecordingRef /\ ~unmounted /\ renderedTranscribing = isTranscribing)
    => /\ PressInGuard
       /\ ~isRecordingRef /\ ~isTransitioningRef

C13_NoStuckState ==
  /\ [][/\ \A i \in DOMAIN starts : C13_CreateFailed(i) => Idle'
        /\ \A i \in DOMAIN stops :
             (C12_RejectedReturn(i) \/ (FailedUpload(stops[i]) /\ stops' = DropTask(stops, i)))
               => Idle']_vars
  /\ [](Quiescent => ~isTransitioningRef /\ ~isTranscribing)
  /\ []C13_Recovered

\* After the upload of one session failed, a new press, held past the
\* threshold, has started another capture.
C13_Witness ==
  /\ isRecordingRef
  /\ Quiescent
  /\ \E h \in finalized : uploads[h] = 1 /\ callbacks[h] = 0
  /\ recordingRef \notin finalized
  /\ pressed /\ pressAge = "long"

\* The start call i made its next step.
C14_Stepped(i) == i \notin DOMAIN starts' \/ starts'[i] # starts[i]

\* What an aborted start leaves: no session active, nothing new in
\* recordingRef, no handle created, the call over, the controller Idle.
C14_Aborted(i) ==
  /\ starts' = DropTask(starts, i)
  /\ ~isRecordingRef' /\ ~isRecording'
  /\ recordingRef' = recordingRef
  /\ created' = created
  /\ Idle'

\* C14 as stated: a start whose permission request is pending either gets the
\* permission and goes on to the audio mode, or is aborted there, so that
\* createAsync is never its next step; and a start whose createAsync is
\* rejected is aborted.
C14_AbortsAtFailure ==
  [][\A i \in DOMAIN starts :
       /\ (starts[i].pc = "perm" /\ C14_Stepped(i)) =>
            \/ i \in DOMAIN starts' /\ starts'[i].pc = "mode"
            \/ C14_Aborted(i)
       /\ (starts[i].pc = "create" /\ C14_Stepped(i) /\ created' = created) =>
            C14_Aborted(i)]_vars

\* C14 as amended: a start whose permission request is pending goes on, to the
\* audio mode or (request rejected) straight to createAsync; a start whose
\* createAsync is rejected is aborted, and the liveness poll is cancelled.
C14_CreateFailureAborts ==
  [][\A i \in DOMAIN starts :
       /\ (starts[i].pc = "perm" /\ C14_Stepped(i)) =>
            /\ i \in DOMAIN starts'
            /\ starts'[i].pc \in {"mode", "create"}
            /\ UNCHANGED <<isTransitioningRef, isRecordingRef, recordingRef, created>>
       /\ (starts[i].pc = "create" /\ C14_Stepped(i) /\ created' = created) =>
            /\ C14_Aborted(i)
            /\ pollingIntervalRef' = "null"]_vars

\* A held press whose start was aborted by a rejected createAsync: the hold
\* timer has fired, the press is still registered, no handle exists, the poll
\* is off and the controller is Idle.
C14_Witness ==
  /\ pressed /\ isPressingRef
  /\ holdTimerRef = "fired"
  /\ starts = <<>>
  /\ created = {}
  /\ pollingIntervalRef = "null"
  /\ Idle

\* C15 (cancel window): a stop that flips an active session less than 400 ms
\* after its start committed takes the cancel path; the session's handle is
\* finalized by that path and dropped from recordingRef; and no upload and no
\* result callback is ever made for such a session.
C15_CancelWindow ==
  /\ [][(isRecordingRef /\ ~isRecordingRef' /\ ~unmounted'
           /\ recordingStartTimeRef = "recent") =>
          /\ recordingRef \in cancelled'
          /\ \E i \in DOMAIN stops' :
               stops'[i].rec = recordingRef /\ stops'[i].pc = "cancelFinalize"]_vars
  /\ [][\A i \in DOMAIN stops :
          (stops[i].pc = "cancelFinalize" /\ stops' # stops) =>
            /\ stops' = DropTask(stops, i)
            /\ stops[i].rec \in finalized'
            /\ recordingRef' = 0]_vars
  /\ [](\A h \in cancelled : uploads[h] = 0 /\ callbacks[h] = 0)

\* A session stopped inside the cancel window has been finalized and its stop
\* call has returned.
C15_Witness ==
  /\ \E h \in cancelled : h \in finalized /\ uploads[h] = 0
  /\ stops = <<>>
  /\ recordingRef = 0
  /\ ~isTransitioningRef
  /\ ~unmounted

\* C16 (liveness fallback): while a session is active the poll is running, and
\* whenever the finger is up, delivered release or not, the poll's condition
\* holds, so that its next tick calls handleStopRecording.
C16_PollRunning == isRecordingRef => pollingIntervalRef = "on"

C16_LivenessFallback ==
  /\ C16_PollRunning
  /\ (isRecordingRef /\ ~pressed) => PollStops

\* The step is a call of handleStopRecording that got past its guard for the
\* active session: one more stop call is in flight, for the handle in
\* recordingRef.
C17_ViaStop ==
  /\ Len(stops') = Len(stops) + 1
  /\ stops'[Len(stops')].rec = recordingRef
  /\ stops'[Len(stops')].pc = "finalize"
  /\ stops'[Len(stops')].by \in {"release", "max", "poll"}

\* A stopAndUnloadAsync() awaited by a stop call settled in this step.
C17_FinalizedByStop ==
  \E i \in DOMAIN stops :
    stops[i].pc = "finalize" /\ finalized' = finalized \cup {stops[i].rec}

\* C17 as stated: every step that clears the active state is a call of
\* handleStopRecording, and every handle is finalized by a stop call.
C17_SingleExitPath ==
  [][/\ (isRecordingRef /\ ~isRecordingRef') => C17_ViaStop
     /\ finalized' # finalized => C17_FinalizedByStop]_vars

\* C17 as amended: press-up, max-duration timer and liveness check clear the
\* active state through handleStopRecording; the only other step that clears
\* it is the unmount cleanup, which hands the handle to stopAndUnloadAsync
\* itself and starts no stop call; a handle is finalized by a stop call or by
\* the unmount cleanup.
C17_StopOrUnmount ==
  [][/\ (isRecordingRef /\ ~isRecordingRef') =>
          \/ C17_ViaStop
          \/ /\ ~unmounted /\ unmounted'
             /\ recordingRef \in unmountFinalize'
             /\ stops' = stops
     /\ finalized' # finalized =>
          \/ C17_FinalizedByStop
          \/ \E h \in unmountFinalize :
               finalized' = finalized \cup {h} /\ h \notin unmountFinalize']_vars

\* One session was left through handleStopRecording and uploaded; a later one
\* was active at unmount and released by the cleanup.
C17_Witness ==
  /\ disposedActive # 0
  /\ disposedActive \in finalized
  /\ \E h \in finalized : h # disposedActive /\ uploads[h] = 1
  /\ uploads[disposedActive] = 0

\* What a capture session consists of, in the press-id variant.
C18_Session == <<recordingRef, isRecordingRef, isRecording, recordingStartTimeRef,
                 stops, uploads, callbacks>>

\* C18 (press id): the id never decreases, every press-down and every step
\* that marks the press inactive (press-up) increments it; the callback of a
\* timer that captured an older id changes nothing but the timer list; and a
\* step of a start call that captured an older id leaves the session state
\* alone, never creates a handle after the setup re-check, never commits, and
\* ends the call with the guard released as it was before the call.
C18_PressIdInvalidates ==
  [][/\ currentPressIdRef' >= currentPressIdRef
     /\ (~pressed /\ pressed') => currentPressIdRef' = currentPressIdRef + 1
     /\ (isPressActiveRef /\ ~isPressActiveRef') => currentPressIdRef' = currentPressIdRef + 1
     /\ \A t \in timeouts :
          (t.id < currentPressIdRef /\ t.st = "due" /\ timeouts' = timeouts \ {t}) =>
            UNCHANGED <<C18_Session, isTransitioningRef, starts, created, finalized,
                        isPressActiveRef, currentPressIdRef, longPressTimeoutRef>>
     /\ \A i \in DOMAIN starts :
          (starts[i].expected < currentPressIdRef /\ starts' # starts) =>
            /\ UNCHANGED C18_Session
            /\ starts[i].pc = "perm" =>
                 starts' = <<>> \/ starts' = SetTask(starts, i, [starts[i] EXCEPT !.pc = "mode"])
            /\ starts[i].pc = "mode" => starts' = <<>> /\ created' = created
            /\ starts[i].pc = "create" =>
                 starts' = <<>> \/ starts'[i].pc = "abort"
            /\ starts[i].pc = "abort" =>
                 starts' = <<>> /\ starts[i].rec \in finalized'
            /\ starts' = <<>> => ~isTransitioningRef']_vars

\* The release of press 1 was lost, press 2 is down, and the timer of press 1
\* has run its callback: only the timer of press 2 is pending, nothing started.
C18_Witness ==
  /\ pressed
  /\ currentPressIdRef = 2
  /\ timeouts = {[id |-> 2, st |-> "armed"]}
  /\ starts = <<>>
  /\ created = {}
  /\ ~isTransitioningRef
  /\ ~unmounted

\* The max-duration timer has stopped the session while the press is still
\* down and registered: the stop cleared both timers and the flag.
C19_AutoStoppedHeld ==
  /\ pressed /\ isPressingRef /\ ~unmounted
  /\ ~isRecordingRef
  /\ holdTimerRef = "null"

\* C19 (release after auto-stop): in that state no start is in flight and no
\* timer is pending; the press-up that follows starts no stop call (no second
\* finalize), makes no upload and no callback, creates nothing and leaves the
\* controller not recording with no hold timer; no two stop calls are ever in
\* flight for one handle; and a start call only ever begins from a hold
\* timer, which only a press-down arms.
C19_ReleaseAfterAutoStop ==
  /\ [](C19_AutoStoppedHeld => starts = <<>> /\ maxTimerRef = "null")
  /\ [](\A i, j \in DOMAIN stops : stops[i].rec = stops[j].rec => i = j)
  /\ [][/\ (C19_AutoStoppedHeld /\ ~pressed' /\ ~unmounted') =>
             /\ UNCHANGED <<stops, starts, uploads, callbacks, finalized, created,
                            recordingRef, isTransitioningRef>>
             /\ ~isRecordingRef'
             /\ holdTimerRef' = "null"
        /\ Len(starts') > Len(starts) => holdTimerRef = "due"
        /\ (holdTimerRef # "armed" /\ holdTimerRef' = "armed") => ~pressed /\ pressed']_vars

\* The press-up arrived while the stop call made by the max-duration timer
\* was still in flight, and that call is the only one.
C19_Witness ==
  /\ ~pressed /\ ~isPressingRef
  /\ retriggered
  /\ Len(stops) = 1
  /\ stops[1].by = "max"
  /\ ~isRecordingRef
  /\ starts = <<>>
  /\ holdTimerRef = "null"

\* The request is an array with at least 2 non-empty string entries.
C20_TwoNonEmptyStrings ==
  /\ texts.kind = "array"
  /\ Cardinality({i \in DOMAIN texts.items : texts.items[i] \in {"text", "blank"}}) >= 2

\* C20 (POST /combine): a request that reaches the model or is answered with
\* 200 is an array with at least 2 non-empty string entries; every other
\* request is answered with an error status and makes no model call; a
\* request makes at most one model call; and a 200 response carries a
\* non-empty combinedText, an empty model output being answered with 500.
C20_CombineValidation ==
  /\ (llmCalls > 0 \/ combineStatus = 200) => C20_TwoNonEmptyStrings
  /\ (combinePc # "idle" /\ ~C20_TwoNonEmptyStrings) =>
       combinePc = "done" /\ combineStatus >= 400 /\ llmCalls = 0
  /\ llmCalls <= 1
  /\ combinePc = "done" => combineStatus \in {200, 400, 500}
  /\ combineStatus = 200 <=> combinedText = "text"

\* A request with two texts and a blank entry was accepted, the model
\* returned nothing, and the answer is an error without combinedText.
C20_Witness ==
  /\ combinePc = "done"
  /\ texts = [kind |-> "array", items |-> <<"text", "blank", "text">>]
  /\ llmCalls = 1
  /\ combineStatus = 500
  /\ combinedText = "none"

\* C21 (combineCards contract): a call that has ended returned a non-empty
\* combinedText or threw, never both and never an empty value; with fewer than
\* 2 texts it threw without having sent a request; it threw when the response
\* status was not a success and when the response body had no combinedText; a
\* value is returned only from an ok response that carried it.
C21_Ended == cardsPc \in {"returned", "thrown"}

C21_CombineCardsContract ==
  /\ cardsPc = "returned" =>
       cardsResult = "text" /\ cardsResponse = "ok" /\ cardsBody = "text"
  /\ cardsPc # "returned" => cardsResult = "none"
  /\ (cardsPc # "idle" /\ (cardsTexts.kind = "missing" \/ Len(cardsTexts.items) < 2)) =>
       cardsPc = "thrown" /\ cardsRequests = 0
  /\ (C21_Ended /\ cardsResponse = "notOk") => cardsPc = "thrown"
  /\ (C21_Ended /\ cardsBody \in {"empty", "missing"}) => cardsPc = "thrown"
  /\ cardsRequests <= 1

\* An ok response without combinedText made a call with three texts throw.
C21_Witness ==
  /\ cardsPc = "thrown"
  /\ Len(cardsTexts.items) = 3
  /\ cardsRequests = 1
  /\ cardsResponse = "ok"
  /\ cardsBody = "missing"

\* C22 as stated: once the response is sent, if speech-to-text succeeded the
\* status is a success and the body carries the transcript; if the handler took
\* the summarization for failed or empty, summary and extractedLifts are null;
\* without a file, or with a failed speech-to-text, the status is an error and
\* the body has no transcript.
C22_SttSuccess ==
  (trPc = "done" /\ trStt = "ok") =>
    trStatus = 200 /\ trTranscript \in {"text", "empty"}

C22_NoTranscriptOnError ==
  (trPc = "done" /\ (~trFile \/ trStt = "rejected")) =>
    trStatus >= 400 /\ trTranscript = "none" /\ trSummary = "none" /\ trLifts = "none"

C29_TempFileRemoved ==
  (trPc = "done" /\ trFile /\ trUnlinks = {} /\ ~trUnlinkError) =>
    \A f \in trDir : f.req # trReq

\* C23 (hold starts capture): a press-down that arrives while the controller
\* is Idle (and rendered as Idle) arms the hold timer for that press; as long
\* as the press is held the timer stays pending until H has elapsed; the
\* timer's callback, run while the press is still held, invokes start and
\* start passes its guards; and when createAsync resolves the session is
\* active on the new handle.
C23_TimerPending ==
  (idleAtPress /\ pressed /\ pressAge = "short") =>
    /\ isPressingRef /\ timerOfPress
    /\ holdTimerRef = "armed" /\ pendingStartRef
    /\ ~isRecordingRef /\ ~isTransitioningRef

\* Past the threshold the timer is due with the guards of start open, or its
\* callback has run, or the stop of the session it started has cleared it.
C23_HeldPastThreshold ==
  (idleAtPress /\ pressed /\ pressAge = "long") =>
    \/ /\ holdTimerRef = "due" /\ pendingStartRef
       /\ isPressingRef /\ timerOfPress
       /\ ~isRecordingRef /\ ~isTransitioningRef
    \/ holdTimerRef = "fired"
    \/ holdTimerRef = "null" /\ ~isRecordingRef /\ created # {}

C23_HoldStartsCapture ==
  /\ []C23_TimerPending
  /\ []C23_HeldPastThreshold
  /\ [][(idleAtPress /\ pressed /\ holdTimerRef = "due" /\ holdTimerRef' = "fired")
          => /\ starts' = Append(starts, NewStart)
             /\ isTransitioningRef']_vars
  /\ [][\A i \in DOMAIN starts :
          (starts[i].pc = "create" /\ created' # created)
            => /\ isRecordingRef' /\ isRecording'
               /\ recordingRef' \in created' \ created
               /\ recordingRef' \notin finalized']_vars

\* The press arrived while Idle, is still held, and its capture is active.
C23_Witness ==
  /\ idleAtPress /\ pressed /\ pressAge = "long"
  /\ holdTimerRef = "fired"
  /\ isRecordingRef /\ recordingRef # 0
  /\ finalized # {}

\* C24 (stop is atomic up to its first await): the step that puts a stop call
\* in flight has cleared the recording flag and the recording state; and while
\* a stop call is in flight (finalizing, uploading or deleting) no session is
\* active, the re-entrancy guard is set, start's guards refuse, and another
\* stop call adds no second finalize.
C24_TearingDown == stops # <<>>

C24_StopAtomic ==
  /\ [][Len(stops') > Len(stops)
          => isRecordingRef /\ ~isRecordingRef' /\ ~isRecording' /\ isTransitioningRef']_vars
  /\ [](C24_TearingDown => ~isRecordingRef /\ ~isRecording /\ isTransitioningRef)
  /\ [](C24_TearingDown =>
          \A by \in {"release", "max", "poll"} :
            handleStopRecordingSync(Ctl, by).stops = stops)
  /\ [][(C24_TearingDown /\ starts = <<>>) => starts' = <<>>]_vars

\* A release stopped the session, and during the upload a new press was held
\* past the threshold: its timer's callback ran and no start was made.
C24_Witness ==
  /\ stops # <<>> /\ stops[1].by = "release" /\ stops[1].pc = "fetch"
  /\ pressed /\ pressAge = "long" /\ isPressingRef
  /\ holdTimerRef = "fired"
  /\ starts = <<>>
  /\ ~isRecordingRef

\* C25 (status projection): while the component is mounted the recording
\* state and the transcribing state are never both true; the transcribing
\* state is true only while a stop call is between the start of its fetch and
\* its inner finally; the recording state is true only while a capture
\* session is active on a live handle.
C25_UploadInFlight == \E i \in DOMAIN stops : stops[i].pc \in {"fetch", "json"}

C25_SessionActive ==
  isRecordingRef /\ recordingRef \in created \ finalized

C25_StatusProjection ==
  ~unmounted =>
    /\ ~(isRecording /\ isTranscribing)
    /\ isTranscribing => C25_UploadInFlight
    /\ isRecording => C25_SessionActive

\* A second session is being recorded after the first one's upload ended, and
\* a third press is not yet down.
C25_Witness ==
  /\ ~unmounted
  /\ isRecording /\ ~isTranscribing
  /\ \E h \in finalized : uploads[h] = 1
  /\ stops = <<>>

\* C26 as stated (the status projection decides nothing): there is no state in
\* which the status check alone made the controller ignore a press that it
\* would otherwise have turned into a capture, that is, a held press that
\* handlePressIn ignored because of isTranscribing only, now past the hold
\* threshold with the component mounted, nothing in flight and the remaining
\* guards of start open.
C26_StatusNeverDecides ==
  ~(/\ refusedByStatus /\ pressed /\ pressAge = "long"
    /\ ~unmounted
    /\ ~isPressingRef
    /\ ~isRecordingRef /\ ~isTransitioningRef
    /\ starts = <<>> /\ stops = <<>>)

\* C26 as amended: the status projection gates press-down. A press-down
\* handled while the rendered status is transcribing changes nothing of the
\* controller; as long as that press is held and unregistered no start call is
\* made, even after the upload has ended; a press-down handled while the
\* rendered status is not transcribing and no session is active registers the
\* press and arms the hold timer.
C26_PressDown == ~pressed /\ pressed'

C26_StatusGatesPressDown ==
  /\ [][(C26_PressDown /\ renderedTranscribing)
          => UNCHANGED <<isPressingRef, ctlVars, starts>>]_vars
  /\ [][(refusedByStatus /\ pressed /\ ~isPressingRef) => Len(starts') <= Len(starts)]_vars
  /\ [][(C26_PressDown /\ ~renderedTranscribing /\ ~isRecordingRef)
          => isPressingRef' /\ holdTimerRef' = "armed" /\ pollingIntervalRef' = "on"]_vars

\* The upload has ended and the controller is Idle and rendered as Idle, with
\* a press still held, past the threshold, that was ignored while transcribing.
C26_Witness ==
  /\ refusedByStatus /\ pressed /\ pressAge = "long"
  /\ ~unmounted /\ ~isPressingRef
  /\ Idle /\ ~renderedTranscribing
  /\ starts = <<>> /\ stops = <<>>
  /\ \E h \in finalized : uploads[h] = 1

\* C27 (Idle holds no handle): whenever the component is mounted, the
\* recording flag is false and no start and no stop call is in flight,
\* recordingRef is null.
C27_IdleHoldsNoHandle ==
  (~unmounted /\ ~isRecordingRef /\ starts = <<>> /\ stops = <<>>) => recordingRef = 0

\* C28 (nothing happens after disposal): once the component has unmounted no
\* session is active, no timer and no poll is pending, and no step sends an
\* upload or invokes the result callback.
C28_NoSessionAfterDisposal == unmounted => ~isRecordingRef /\ recordingRef = 0

C28_NoTimerAfterDisposal ==
  unmounted =>
    /\ holdTimerRef \notin {"armed", "due"}
    /\ maxTimerRef \notin {"armed", "due"}
    /\ pollingIntervalRef = "null"

C28_InertAfterDisposal ==
  /\ []C28_NoSessionAfterDisposal
  /\ []C28_NoTimerAfterDisposal
  /\ [][unmounted => uploads' = uploads /\ callbacks' = callbacks]_vars

\* C30 (nothing lost across the initial load): once the load has been merged
\* and every save issued so far has completed, the in-memory map and the
\* stored data both hold every entry that was stored when the app started and
\* every entry added before the load was merged.
C30_Settled == stPc = "loaded" /\ stSaves = <<>>

C30_Expected == deserializeWorkouts(stInitial).items \cup stEarly

C30_NothingLost ==
  C30_Settled =>
    /\ C30_Expected \subseteq workoutsByDate.items
    /\ C30_Expected \subseteq deserializeWorkouts(stStorage).items

====
